---- MODULE Spec2Model ----
(***************************************************************************)
(* A model of the LifeSync dashboard: the analytics widgets of             *)
(* frontend/js/analytics-viz.js, the API layer they call, and the          *)
(* relational schema with its daily_habit_stats view.                      *)
(***************************************************************************)
EXTENDS Integers, Sequences, FiniteSets, TLC

VARIABLES
    percentage,         \* the argument handed to getHeatmapLevel
    heatLevel,          \* what getHeatmapLevel returned for it (-1: not called yet)
    tz,                 \* the browser's UTC offset in hours (local = UTC + tz)
    currentYear,        \* new Date().getFullYear()
    dom,                \* the ids of the elements the page holds
    hung,               \* the page's only thread is stuck in a loop that never ends
    callsLeft,          \* how many more calls the user may make
    initRun,            \* initAdvancedAnalytics has been called
    sent,               \* the requests handed to fetch so far
    inflight,           \* per widget, the arguments of the calls awaiting their response
    outcome,            \* per widget, how its last resumed call ended
    shown,              \* per widget, what its container shows
    dataMap,            \* the entries by date the heatmap grid was built from
    gridStart,          \* the local calendar day of the grid's first cell
    weekCount,          \* the heatmap's week counter when its loop ended
    charts,             \* the Chart instances that have not been destroyed
    productivityChart,  \* the module's slot: a Chart id, 0 for null
    comparisonChart,    \* the module's slot: a Chart id, 0 for null
    nextChartId,        \* the id the next Chart instance gets
    disabled,           \* the export buttons' disabled property
    csvJobs,            \* the exportToCSV calls awaiting their response
    pdfJobs,            \* the exportToPDF calls awaiting Promise.all: per call, the requests still pending
    toast,              \* per export, the last toast it showed
    downloads,          \* the files saved so far
    users,              \* rows of table users (ids)
    nextUserId,         \* the users_id_seq sequence
    habits,             \* rows of table habits
    habit_logs,         \* rows of table habit_logs
    nextHabitId,        \* the habits_id_seq sequence
    nextLogId,          \* the habit_logs_id_seq sequence
    tasks,              \* rows of table tasks
    nextTaskId,         \* the tasks_id_seq sequence
    query,              \* the request an aggregator of the backend was last given
    answer,             \* what it answered, and what the page made of it
    dataTheme,          \* the data-theme attribute of the document element ("null": absent)
    localStorage,       \* localStorage, per key ("null": no item)
    transitioning,      \* body carries the class theme-transitioning
    themeTimers,        \* the setTimeout callbacks of Theme.toggle yet to run
    themePuts,          \* the PUTs of the preference awaiting their response
    themeTrail,         \* the Theme calls made so far, each with the theme it left
    palette,            \* CommandPalette's fields and the elements it writes
    overlays,           \* how many cmd-overlay elements the document holds
    listeners,          \* how many keydown listeners bindEvents has added
    events,             \* how many events of the user the palette has handled
    lastEvent,          \* the last of them
    href,               \* window.location.href ("here": the page was not left)
    introShown,         \* sessionStorage holds the item introShown
    logoutJobs,         \* the Auth.logout calls awaiting their response
    logoutOutcome,      \* how the last resumed Auth.logout call ended
    activePeriod        \* the period whose period-btn carries the class active

levelVars == <<percentage, heatLevel>>
pageVars == <<tz, currentYear, dom, hung, callsLeft, initRun, sent, inflight,
              outcome, shown, dataMap, gridStart, weekCount>>
chartVars == <<charts, productivityChart, comparisonChart, nextChartId>>
exportVars == <<disabled, csvJobs, pdfJobs, toast, downloads>>
dbVars == <<users, nextUserId, habits, habit_logs, nextHabitId, nextLogId,
            tasks, nextTaskId>>
aggVars == <<query, answer>>
themeVars == <<dataTheme, localStorage, transitioning, themeTimers, themePuts, themeTrail>>
paletteVars == <<palette, overlays, listeners, events, lastEvent>>
authVars == <<href, introShown, logoutJobs, logoutOutcome>>
periodVars == <<activePeriod>>
shellVars == <<themeVars, paletteVars, authVars, periodVars>>
vars == <<levelVars, aggVars, shellVars, pageVars, chartVars, exportVars, dbVars>>

(***************************************************************************)
(* Bounds of the model.                                                    *)
(***************************************************************************)
MaxPct == 100
MinYear == 2000
NumYears == 28
PageCalls == 1
MaxCalls == 3
MaxItems == 1
MaxUsers == 1
MaxHabits == 3
MaxLogs == 2
MaxDate == 1
MaxTasks == 1
MaxDays == 5
MaxWindow == 7
MaxCount == 10
MaxThemeCalls == 4
MaxRenders == 2
MaxEvents == 4
MaxLogouts == 2
MaxBody == 9

Years == MinYear..(MinYear + NumYears - 1)
TzOffsets == {-12, -5, 0, 1, 14}

(***************************************************************************)
(* getHeatmapLevel                                                         *)
(***************************************************************************)
getHeatmapLevelOffByOne(p) ==
    IF p = 0 THEN 0
    ELSE IF p < 25 THEN 1
    ELSE IF p < 50 THEN 2
    ELSE IF p < 75 THEN 3
    ELSE 4

getHeatmapLevel(p) ==
    IF p = 0 THEN 0
    ELSE IF p <= 25 THEN 1
    ELSE IF p <= 50 THEN 2
    ELSE IF p <= 75 THEN 3
    ELSE 4

(***************************************************************************)
(* The calendar of JavaScript's Date, in whole days.  A day is counted     *)
(* from 1 January of year 1, which is a Monday.                            *)
(***************************************************************************)
IsLeapYear(y) == (y % 4 = 0 /\ y % 100 # 0) \/ y % 400 = 0

DaysInYear(y) == IF IsLeapYear(y) THEN 366 ELSE 365

\* new Date(y, 0, 1): the local day of 1 January of year y
JanFirst(y) ==
    365 * (y - 1) + ((y - 1) \div 4) - ((y - 1) \div 100) + ((y - 1) \div 400)

\* new Date(y, 11, 31)
DecLast(y) == JanFirst(y) + DaysInYear(y) - 1

\* Date.prototype.getDay: 0 is Sunday, 1 is Monday
getDay(d) == (d + 1) % 7

\* Date.prototype.getFullYear: the year whose days include d (400 years have
\* 146097 days, so the year is within one of the estimate)
getFullYear(d) ==
    LET est == ((d * 400) \div 146097) + 1
    IN CHOOSE y \in (est - 1)..(est + 1) : JanFirst(y) <= d /\ d < JanFirst(y + 1)

\* currentDate.toISOString().split('T')[0] of local midnight of day d: the
\* date in UTC of the instant that is tz hours before UTC's midnight of d
toISODate(d, offset) == ((d * 24) - offset) \div 24

(***************************************************************************)
(* The API layer: what fetch may answer, and what API.request makes of it. *)
(***************************************************************************)
\* What fetch(url, config) may do: reject (fetched is FALSE), or resolve with a
\* response that is JSON or not, with an OK status or not, whose body carries
\* a success flag and, when that flag is set, one of the payloads.
HttpResponses(payloads, none) ==
    {[fetched |-> FALSE, json |-> FALSE, ok |-> FALSE, success |-> FALSE, payload |-> none]}
    \cup {[fetched |-> TRUE, json |-> FALSE, ok |-> o, success |-> FALSE, payload |-> none] :
              o \in BOOLEAN}
    \cup {[fetched |-> TRUE, json |-> TRUE, ok |-> o, success |-> FALSE, payload |-> none] :
              o \in BOOLEAN}
    \cup {[fetched |-> TRUE, json |-> TRUE, ok |-> o, success |-> TRUE, payload |-> p] :
              o \in BOOLEAN, p \in payloads}

APIrequestThrowingOnFailure(resp) ==
    IF resp.fetched /\ resp.json /\ resp.success
    THEN [threw |-> FALSE, success |-> resp.success, payload |-> resp.payload]
    ELSE [threw |-> TRUE, success |-> FALSE, payload |-> resp.payload]

\* API.request: the body when the response is JSON and its status is OK or its
\* success flag is set; an exception otherwise
APIrequest(resp) ==
    IF ~resp.fetched THEN [threw |-> TRUE, success |-> FALSE, payload |-> resp.payload]
    ELSE IF resp.json
         THEN IF ~resp.ok /\ ~resp.success
              THEN [threw |-> TRUE, success |-> FALSE, payload |-> resp.payload]
              ELSE [threw |-> FALSE, success |-> resp.success, payload |-> resp.payload]
         ELSE [threw |-> TRUE, success |-> FALSE, payload |-> resp.payload]

\* what awaiting API.get may give, for the answers fetch may give
Results(payloads, none) == {APIrequest(resp) : resp \in HttpResponses(payloads, none)}

APIgetAsPost(path, param) == [method |-> "POST", path |-> path, param |-> param]

\* API.get(endpoint): the request handed to fetch
APIget(path, param) == [method |-> "GET", path |-> path, param |-> param]

(***************************************************************************)
(* The five widgets of the analytics page.                                 *)
(***************************************************************************)
Widgets == {"heatmap", "productivity", "strength", "correlations", "comparison"}

\* the element each render function looks up first
Container(w) ==
    CASE w = "heatmap" -> "heatmapContainer"
      [] w = "productivity" -> "productivityChart"
      [] w = "strength" -> "habitStrengthContainer"
      [] w = "correlations" -> "correlationContainer"
      [] w = "comparison" -> "comparisonChart"

Buttons == {"exportCSVBtn", "exportPDFBtn"}

Elements == {Container(w) : w \in Widgets} \cup {"comparisonChanges"} \cup Buttons

\* the elements whose innerHTML the render functions set
Panels == {"heatmapContainer", "habitStrengthContainer", "correlationContainer",
           "comparisonChanges"}

Endpoint(w) ==
    CASE w = "heatmap" -> "/api/analytics/heatmap?year="
      [] w = "productivity" -> "/api/analytics/productivity-score?period="
      [] w = "strength" -> "/api/analytics/habit-strength"
      [] w = "correlations" -> "/api/analytics/correlations"
      [] w = "comparison" -> "/api/analytics/comparison"

Periods == {"week", "month", "year"}

\* what a caller may pass for a period: one of the three, or anything else
PeriodArgs == Periods \cup {"decade"}

\* a year argument that is no number is modelled as a negative one
IsNaN(year) == year < 0

\* the template literal's rendering of the argument
Param(w, arg) ==
    CASE w = "heatmap" -> IF IsNaN(arg) THEN "NaN" ELSE ToString(arg)
      [] w = "productivity" -> arg
      [] OTHER -> ""

NoOutcome == [kind |-> "none", how |-> "none", n |-> 0]
Blank == [kind |-> "empty", n |-> 0]

RemoveAt(s, i) == [k \in 1..(Len(s) - 1) |-> IF k < i THEN s[k] ELSE s[k + 1]]

\* The part of the render functions before their await, for the widgets ws
\* called with the arguments args: each one whose element exists sends its
\* GET and waits; one whose element is missing returns at once.
Start(ws, args) ==
    /\ sent' = sent \cup {APIget(Endpoint(w), Param(w, args[w])) :
                             w \in {x \in ws : Container(x) \in dom}}
    /\ inflight' = [w \in Widgets |->
                      IF w \in ws /\ Container(w) \in dom
                      THEN Append(inflight[w], args[w])
                      ELSE inflight[w]]

ArgsFor(w, arg) == [x \in {w} |-> arg]

Finish(w, kind, how, n) ==
    outcome' = [outcome EXCEPT ![w] = [kind |-> kind, how |-> how, n |-> n]]

(***************************************************************************)
(* renderHeatmapCalendar                                                   *)
(***************************************************************************)
\* what the heatmap endpoint may return for a year: rows {date, completed,
\* total, percentage}, for none, one or two days of the year
HeatmapPayloads(year) ==
    IF IsNaN(year) THEN {{}}
    ELSE {{},
          {[date |-> JanFirst(year), completed |-> 2, total |-> 5, percentage |-> 40]},
          {[date |-> JanFirst(year), completed |-> 2, total |-> 5, percentage |-> 40],
           [date |-> DecLast(year), completed |-> 5, total |-> 5, percentage |-> 100]}}

BackToNoDay(d) == d

RECURSIVE BackToMonday(_)
\* while (currentDate.getDay() !== 1) currentDate.setDate(currentDate.getDate() - 1)
BackToMonday(d) == IF getDay(d) = 1 THEN d ELSE BackToMonday(d - 1)

\* the cell the for loop's body appends for local day d
Cell(d, data, offset) ==
    LET dateStr == toISODate(d, offset)
        hit == {x \in data : x.date = dateStr}
    IN [date |-> dateStr,
        level |-> IF hit # {} THEN getHeatmapLevel((CHOOSE x \in hit : TRUE).percentage)
                  ELSE 0,
        hasData |-> hit # {}]

RECURSIVE WeekLoop(_, _, _)
\* while (currentDate <= endDate || currentDate.getFullYear() === year) { seven
\*   days; weekCount++; if (currentDate.getFullYear() > year && weekCount > 52) break; }
\* The weeks the loop runs through, from currentDate = cur and weekCount = wc.
WeekLoop(cur, wc, year) ==
    IF cur <= DecLast(year) \/ getFullYear(cur) = year
    THEN IF getFullYear(cur + 7) > year /\ wc + 1 > 52
         THEN wc + 1
         ELSE WeekLoop(cur + 7, wc + 1, year)
    ELSE wc

\* the cells in the order the loop appends them: seven days a week, a day
\* after the other from the first Monday
GridCells(start, weeks, data, offset) ==
    [i \in 1..(7 * weeks) |-> Cell(start + i - 1, data, offset)]

\* the grid the loops build, for every year, UTC offset and returned data
HeatmapGrid ==
    [year \in Years, offset \in TzOffsets |->
        LET start == BackToMonday(JanFirst(year))
            weeks == WeekLoop(start, 0, year)
        IN [data \in HeatmapPayloads(year) |->
               [start |-> start, weeks |-> weeks,
                cells |-> GridCells(start, weeks, data, offset)]]]

\* the heatmap grid: the cells in document order, as appended from the entries
\* of dataMap (empty before the first rendering)
cells ==
    IF weekCount = 0 THEN <<>>
    ELSE HeatmapGrid[getFullYear(gridStart + 6), tz][dataMap].cells

RenderHeatmapCalendarCall(year) ==
    /\ callsLeft > 0 /\ ~hung
    /\ callsLeft' = callsLeft - 1
    /\ Start({"heatmap"}, ArgsFor("heatmap", year))
    /\ UNCHANGED <<levelVars, aggVars, shellVars, tz, currentYear, dom, hung, initRun, outcome, shown,
                   dataMap, gridStart, weekCount, chartVars, exportVars, dbVars>>

\* the rest of renderHeatmapCalendar, run when the response of one of its
\* calls arrives
RenderHeatmapCalendarResume ==
    /\ ~hung
    /\ \E i \in 1..Len(inflight["heatmap"]) :
         LET year == inflight["heatmap"][i] IN
         \E result \in Results(HeatmapPayloads(year), {}) :
           LET n == Cardinality(result.payload)
           IN
           /\ inflight' = [inflight EXCEPT !["heatmap"] = RemoveAt(@, i)]
           /\ IF result.threw
              THEN /\ Finish("heatmap", "reject", "threw", n)
                   /\ UNCHANGED <<shown, dataMap, gridStart, weekCount, hung>>
              ELSE IF ~result.success
              THEN /\ Finish("heatmap", "fail", "error", n)
                   /\ shown' = [shown EXCEPT !["heatmapContainer"] = [kind |-> "error", n |-> 0]]
                   /\ UNCHANGED <<dataMap, gridStart, weekCount, hung>>
              ELSE IF IsNaN(year)
              THEN \* new Date(NaN, 0, 1).getDay() is NaN, never 1
                   /\ Finish("heatmap", "ok", "hang", n)
                   /\ hung' = TRUE
                   /\ UNCHANGED <<shown, dataMap, gridStart, weekCount>>
              ELSE LET grid == HeatmapGrid[year, tz][result.payload]
                   IN /\ Finish("heatmap", "ok", "rendered", n)
                      /\ dataMap' = result.payload
                      /\ gridStart' = grid.start
                      /\ weekCount' = grid.weeks
                      /\ shown' = [shown EXCEPT !["heatmapContainer"] =
                                      [kind |-> "grid", n |-> Len(grid.cells)]]
                      /\ UNCHANGED hung
    /\ UNCHANGED <<levelVars, aggVars, shellVars, tz, currentYear, dom, callsLeft, initRun, sent,
                   chartVars, exportVars, dbVars>>

(***************************************************************************)
(* Chart.js, as far as the page uses it                                    *)
(***************************************************************************)
\* chart.destroy(): the instance is no longer among the live ones
Destroy(live, id) == {c \in live : c.id # id}

\* new Chart(ctx, config) on a canvas
NewChart(live, id, canvas, data) == live \cup {[id |-> id, canvas |-> canvas, data |-> data]}

(***************************************************************************)
(* renderProductivityChart                                                 *)
(***************************************************************************)
RenderProductivityChartCall(period) ==
    /\ callsLeft > 0 /\ ~hung
    /\ callsLeft' = callsLeft - 1
    /\ Start({"productivity"}, ArgsFor("productivity", period))
    /\ UNCHANGED <<levelVars, aggVars, shellVars, tz, currentYear, dom, hung, initRun, outcome, shown,
                   dataMap, gridStart, weekCount, chartVars, exportVars, dbVars>>

\* if (productivityChart) productivityChart.destroy(); productivityChart = new Chart(...)
ProductivityRedrawNoDestroy(scores) ==
    /\ charts' = NewChart(charts, nextChartId, "productivityChart", scores)
    /\ productivityChart' = nextChartId
    /\ nextChartId' = nextChartId + 1

ProductivityRedraw(scores) ==
    /\ charts' = NewChart(IF productivityChart # 0 THEN Destroy(charts, productivityChart)
                          ELSE charts,
                          nextChartId, "productivityChart", scores)
    /\ productivityChart' = nextChartId
    /\ nextChartId' = nextChartId + 1

RenderProductivityChartResume ==
    /\ ~hung
    /\ \E i \in 1..Len(inflight["productivity"]) :
         LET period == inflight["productivity"][i] IN
         \E result \in Results({period}, "") :
           /\ inflight' = [inflight EXCEPT !["productivity"] = RemoveAt(@, i)]
           /\ IF result.threw
              THEN /\ Finish("productivity", "reject", "threw", 0)
                   /\ UNCHANGED <<charts, productivityChart, nextChartId>>
              ELSE IF ~result.success
              THEN /\ Finish("productivity", "fail", "silent", 0)
                   /\ UNCHANGED <<charts, productivityChart, nextChartId>>
              ELSE /\ Finish("productivity", "ok", "rendered", 1)
                   /\ ProductivityRedraw(result.payload)
    /\ UNCHANGED <<levelVars, aggVars, shellVars, tz, currentYear, dom, hung, callsLeft, initRun, sent,
                   shown, dataMap, gridStart, weekCount, comparisonChart, exportVars, dbVars>>

(***************************************************************************)
(* renderHabitStrength and renderCorrelationMatrix                         *)
(***************************************************************************)
RenderHabitStrengthCall ==
    /\ callsLeft > 0 /\ ~hung
    /\ callsLeft' = callsLeft - 1
    /\ Start({"strength"}, ArgsFor("strength", ""))
    /\ UNCHANGED <<levelVars, aggVars, shellVars, tz, currentYear, dom, hung, initRun, outcome, shown,
                   dataMap, gridStart, weekCount, chartVars, exportVars, dbVars>>

\* what a list widget puts into its container for a successful response that
\* lists n items, of which it shows at most top
ListPanelNoEmptyCheck(n, top) == [kind |-> "items", n |-> IF n > top THEN top ELSE n]

ListPanel(n, top) ==
    IF n = 0 THEN [kind |-> "placeholder", n |-> 0]
    ELSE [kind |-> "items", n |-> IF n > top THEN top ELSE n]

RenderHabitStrengthResume ==
    /\ ~hung
    /\ \E i \in 1..Len(inflight["strength"]) :
         \E result \in Results(0..MaxItems, 0) :
           /\ inflight' = [inflight EXCEPT !["strength"] = RemoveAt(@, i)]
           /\ IF result.threw
              THEN /\ Finish("strength", "reject", "threw", 0)
                   /\ UNCHANGED shown
              ELSE IF ~result.success
              THEN /\ Finish("strength", "fail", "error", 0)
                   /\ shown' = [shown EXCEPT !["habitStrengthContainer"] =
                                   [kind |-> "error", n |-> 0]]
              ELSE LET panel == ListPanel(result.payload, result.payload) IN
                   /\ Finish("strength", "ok",
                             IF panel.kind = "placeholder" THEN "placeholder" ELSE "rendered",
                             result.payload)
                   /\ shown' = [shown EXCEPT !["habitStrengthContainer"] = panel]
    /\ UNCHANGED <<levelVars, aggVars, shellVars, tz, currentYear, dom, hung, callsLeft, initRun, sent,
                   dataMap, gridStart, weekCount, chartVars, exportVars, dbVars>>

RenderCorrelationMatrixCall ==
    /\ callsLeft > 0 /\ ~hung
    /\ callsLeft' = callsLeft - 1
    /\ Start({"correlations"}, ArgsFor("correlations", ""))
    /\ UNCHANGED <<levelVars, aggVars, shellVars, tz, currentYear, dom, hung, initRun, outcome, shown,
                   dataMap, gridStart, weekCount, chartVars, exportVars, dbVars>>

RenderCorrelationMatrixResume ==
    /\ ~hung
    /\ \E i \in 1..Len(inflight["correlations"]) :
         \E result \in Results(0..MaxItems, 0) :
           /\ inflight' = [inflight EXCEPT !["correlations"] = RemoveAt(@, i)]
           /\ IF result.threw
              THEN /\ Finish("correlations", "reject", "threw", 0)
                   /\ UNCHANGED shown
              ELSE IF ~result.success
              THEN /\ Finish("correlations", "fail", "error", 0)
                   /\ shown' = [shown EXCEPT !["correlationContainer"] =
                                   [kind |-> "error", n |-> 0]]
              ELSE LET panel == ListPanel(result.payload, 10) IN
                   /\ Finish("correlations", "ok",
                             IF panel.kind = "placeholder" THEN "placeholder" ELSE "rendered",
                             result.payload)
                   /\ shown' = [shown EXCEPT !["correlationContainer"] = panel]
    /\ UNCHANGED <<levelVars, aggVars, shellVars, tz, currentYear, dom, hung, callsLeft, initRun, sent,
                   dataMap, gridStart, weekCount, chartVars, exportVars, dbVars>>

(***************************************************************************)
(* renderComparisonChart                                                   *)
(***************************************************************************)
\* what the comparison endpoint may return: the two percentage changes
ComparisonPayloads ==
    {[habits_change |-> 25, tasks_change |-> -10], [habits_change |-> 0, tasks_change |-> 0]}

RenderComparisonChartCall ==
    /\ callsLeft > 0 /\ ~hung
    /\ callsLeft' = callsLeft - 1
    /\ Start({"comparison"}, ArgsFor("comparison", ""))
    /\ UNCHANGED <<levelVars, aggVars, shellVars, tz, currentYear, dom, hung, initRun, outcome, shown,
                   dataMap, gridStart, weekCount, chartVars, exportVars, dbVars>>

\* if (comparisonChart) comparisonChart.destroy(); comparisonChart = new Chart(...)
ComparisonRedrawNoDestroy(data) ==
    /\ charts' = NewChart(charts, nextChartId, "comparisonChart", data)
    /\ comparisonChart' = nextChartId
    /\ nextChartId' = nextChartId + 1

ComparisonRedraw(data) ==
    /\ charts' = NewChart(IF comparisonChart # 0 THEN Destroy(charts, comparisonChart)
                          ELSE charts,
                          nextChartId, "comparisonChart", data)
    /\ comparisonChart' = nextChartId
    /\ nextChartId' = nextChartId + 1

RenderComparisonChartResume ==
    /\ ~hung
    /\ \E i \in 1..Len(inflight["comparison"]) :
         \E result \in Results(ComparisonPayloads, [habits_change |-> 0, tasks_change |-> 0]) :
           /\ inflight' = [inflight EXCEPT !["comparison"] = RemoveAt(@, i)]
           /\ IF result.threw
              THEN /\ Finish("comparison", "reject", "threw", 0)
                   /\ UNCHANGED <<charts, comparisonChart, nextChartId, shown>>
              ELSE IF ~result.success
              THEN /\ Finish("comparison", "fail", "silent", 0)
                   /\ UNCHANGED <<charts, comparisonChart, nextChartId, shown>>
              ELSE /\ Finish("comparison", "ok", "rendered", 1)
                   /\ ComparisonRedraw("comparison")
                   /\ shown' = IF "comparisonChanges" \in dom
                               THEN [shown EXCEPT !["comparisonChanges"] =
                                        [kind |-> "changes", n |-> 2]]
                               ELSE shown
    /\ UNCHANGED <<levelVars, aggVars, shellVars, tz, currentYear, dom, hung, callsLeft, initRun, sent,
                   dataMap, gridStart, weekCount, productivityChart, exportVars, dbVars>>

(***************************************************************************)
(* initAdvancedAnalytics                                                   *)
(***************************************************************************)
\* the arguments initAdvancedAnalytics passes
InitArgs ==
    [w \in Widgets |->
        IF w = "heatmap" THEN currentYear
        ELSE IF w = "productivity" THEN "month"
        ELSE ""]

\* a version that awaits each widget before it starts the next
InitAdvancedAnalyticsOneByOne ==
    /\ callsLeft > 0 /\ ~hung
    /\ callsLeft' = callsLeft - 1
    /\ initRun' = TRUE
    /\ Start({"heatmap"}, InitArgs)
    /\ UNCHANGED <<levelVars, aggVars, shellVars, tz, currentYear, dom, hung, outcome, shown,
                   dataMap, gridStart, weekCount, chartVars, exportVars, dbVars>>

\* Promise.all([...]): the array's five calls run one after the other, each up
\* to its await, before any response is handled
InitAdvancedAnalytics ==
    /\ callsLeft > 0 /\ ~hung
    /\ callsLeft' = callsLeft - 1
    /\ initRun' = TRUE
    /\ Start(Widgets, InitArgs)
    /\ UNCHANGED <<levelVars, aggVars, shellVars, tz, currentYear, dom, hung, outcome, shown,
                   dataMap, gridStart, weekCount, chartVars, exportVars, dbVars>>

(***************************************************************************)
(* exportToCSV and exportToPDF                                             *)
(***************************************************************************)
\* if (exportBtn) exportBtn.disabled = value
SetDisabled(btn, value) ==
    disabled' = IF btn \in dom THEN [disabled EXCEPT ![btn] = value] ELSE disabled

ExportToCSVCall ==
    /\ callsLeft > 0 /\ ~hung
    /\ callsLeft' = callsLeft - 1
    /\ SetDisabled("exportCSVBtn", TRUE)
    /\ sent' = sent \cup {APIget("/api/analytics/export-data?start_date=&end_date=", "")}
    /\ csvJobs' = csvJobs + 1
    /\ UNCHANGED <<levelVars, aggVars, shellVars, tz, currentYear, dom, hung, initRun, inflight, outcome, shown,
                   dataMap, gridStart, weekCount, chartVars, pdfJobs, toast, downloads, dbVars>>

ExportToCSVResumeNoFinally ==
    /\ ~hung /\ csvJobs > 0
    /\ \E result \in Results({0}, 0), buildThrows \in BOOLEAN :
         LET how == IF result.threw THEN "error"
                    ELSE IF ~result.success THEN "failed"
                    ELSE IF buildThrows THEN "error"
                    ELSE "success"
         IN /\ csvJobs' = csvJobs - 1
            /\ toast' = [toast EXCEPT !["csv"] = how]
            /\ downloads' = IF how = "success" THEN downloads + 1 ELSE downloads
            /\ IF how = "success" THEN SetDisabled("exportCSVBtn", FALSE)
               ELSE UNCHANGED disabled
    /\ UNCHANGED <<levelVars, aggVars, shellVars, pageVars, chartVars, pdfJobs, dbVars>>

\* the rest of exportToCSV: its try block from the response on, its catch and
\* its finally.  buildThrows: building or downloading the file throws.
ExportToCSVResume ==
    /\ ~hung /\ csvJobs > 0
    /\ \E result \in Results({0}, 0), buildThrows \in BOOLEAN :
         LET how == IF result.threw THEN "error"
                    ELSE IF ~result.success THEN "failed"
                    ELSE IF buildThrows THEN "error"
                    ELSE "success"
         IN /\ csvJobs' = csvJobs - 1
            /\ toast' = [toast EXCEPT !["csv"] = how]
            /\ downloads' = IF how = "success" THEN downloads + 1 ELSE downloads
            /\ SetDisabled("exportCSVBtn", FALSE)
    /\ UNCHANGED <<levelVars, aggVars, shellVars, pageVars, chartVars, pdfJobs, dbVars>>

\* the four requests of exportToPDF's Promise.all
PdfRequests ==
    {<<Endpoint("heatmap"), Param("heatmap", currentYear)>>,
     <<Endpoint("strength"), "">>,
     <<Endpoint("correlations"), "">>,
     <<Endpoint("productivity"), "month">>}

ExportToPDFCall ==
    /\ callsLeft > 0 /\ ~hung
    /\ callsLeft' = callsLeft - 1
    /\ SetDisabled("exportPDFBtn", TRUE)
    /\ toast' = [toast EXCEPT !["pdf"] = "info"]
    /\ sent' = sent \cup {APIget(r[1], r[2]) : r \in PdfRequests}
    /\ pdfJobs' = Append(pdfJobs, PdfRequests)
    /\ UNCHANGED <<levelVars, aggVars, shellVars, tz, currentYear, dom, hung, initRun, inflight, outcome, shown,
                   dataMap, gridStart, weekCount, chartVars, csvJobs, downloads, dbVars>>

\* One response of an exportToPDF call arrives.  A rejected request rejects
\* Promise.all at once: the catch and the finally run.  The last response to
\* arrive resumes the function: the file is built, or building it throws.
ExportToPDFResponse ==
    /\ ~hung
    /\ \E j \in 1..Len(pdfJobs) :
         \E r \in pdfJobs[j] :
           \E result \in Results({0}, 0), buildThrows \in BOOLEAN :
             LET pending == pdfJobs[j] \ {r}
             IN IF result.threw
                THEN /\ pdfJobs' = RemoveAt(pdfJobs, j)
                     /\ toast' = [toast EXCEPT !["pdf"] = "error"]
                     /\ SetDisabled("exportPDFBtn", FALSE)
                     /\ UNCHANGED downloads
                ELSE IF pending # {}
                THEN /\ pdfJobs' = [pdfJobs EXCEPT ![j] = pending]
                     /\ UNCHANGED <<toast, disabled, downloads>>
                ELSE /\ pdfJobs' = RemoveAt(pdfJobs, j)
                     /\ toast' = [toast EXCEPT !["pdf"] = IF buildThrows THEN "error" ELSE "success"]
                     /\ downloads' = IF buildThrows THEN downloads ELSE downloads + 1
                     /\ SetDisabled("exportPDFBtn", FALSE)
    /\ UNCHANGED <<levelVars, aggVars, shellVars, pageVars, chartVars, csvJobs, dbVars>>

\* a click on exportCSVBtn: a disabled button fires no click
ExportCSVClick ==
    /\ "exportCSVBtn" \in dom /\ ~disabled["exportCSVBtn"]
    /\ ExportToCSVCall

\* a click on exportPDFBtn
ExportPDFClick ==
    /\ "exportPDFBtn" \in dom /\ ~disabled["exportPDFBtn"]
    /\ ExportToPDFCall

(***************************************************************************)
(* The relational store: tables users, habits and habit_logs, the          *)
(* statements their constraints admit, and the view daily_habit_stats.     *)
(***************************************************************************)
Dates == 1..MaxDate

\* SQL's NULL, for a date, a habit id or a percentage (none is negative)
NULL == -1

\* INSERT INTO users: id SERIAL PRIMARY KEY
InsertUser ==
    /\ nextUserId <= MaxUsers
    /\ users' = users \cup {nextUserId}
    /\ nextUserId' = nextUserId + 1
    /\ UNCHANGED <<levelVars, aggVars, shellVars, pageVars, chartVars, exportVars,
                   habits, habit_logs, nextHabitId, nextLogId, tasks, nextTaskId>>

\* INSERT INTO habits (user_id, ...): user_id REFERENCES users(id), is_active
\* DEFAULT TRUE
InsertHabit(u) ==
    /\ nextHabitId <= MaxHabits
    /\ u \in users
    /\ habits' = habits \cup {[id |-> nextHabitId, user_id |-> u, is_active |-> TRUE]}
    /\ nextHabitId' = nextHabitId + 1
    /\ UNCHANGED <<levelVars, aggVars, shellVars, pageVars, chartVars, exportVars,
                   users, nextUserId, habit_logs, nextLogId, tasks, nextTaskId>>

\* UPDATE habits SET is_active = FALSE WHERE id = h: the soft delete
DeactivateHabit(h) ==
    /\ h \in habits /\ h.is_active
    /\ habits' = (habits \ {h}) \cup {[h EXCEPT !.is_active = FALSE]}
    /\ UNCHANGED <<levelVars, aggVars, shellVars, pageVars, chartVars, exportVars,
                   users, nextUserId, habit_logs, nextHabitId, nextLogId,
                   tasks, nextTaskId>>

\* the row of habit hid and date d is in habit_logs
Marked(hid, d) == \E l \in habit_logs : l.habit_id = hid /\ l.completed_date = d

InsertHabitLogNoUniqueKey(hid, d) ==
    /\ nextLogId <= MaxLogs
    /\ nextLogId' = nextLogId + 1
    /\ habit_logs' = IF \E h \in habits : h.id = hid
                     THEN habit_logs \cup {[id |-> nextLogId, habit_id |-> hid,
                                            completed_date |-> d]}
                     ELSE habit_logs
    /\ UNCHANGED <<levelVars, aggVars, shellVars, pageVars, chartVars, exportVars,
                   users, nextUserId, habits, nextHabitId, tasks, nextTaskId>>

\* INSERT INTO habit_logs (habit_id, completed_date): id SERIAL takes the next
\* value of the sequence, habit_id REFERENCES habits(id), UNIQUE (habit_id,
\* completed_date).  A statement that breaks a constraint fails and leaves
\* the table as it was; the sequence value it took is not given back.
InsertHabitLog(hid, d) ==
    /\ nextLogId <= MaxLogs
    /\ nextLogId' = nextLogId + 1
    /\ habit_logs' = IF (\E h \in habits : h.id = hid) /\ ~Marked(hid, d)
                     THEN habit_logs \cup {[id |-> nextLogId, habit_id |-> hid,
                                            completed_date |-> d]}
                     ELSE habit_logs
    /\ UNCHANGED <<levelVars, aggVars, shellVars, pageVars, chartVars, exportVars,
                   users, nextUserId, habits, nextHabitId, tasks, nextTaskId>>

\* DELETE FROM habit_logs WHERE habit_id = hid AND completed_date = d: no row
\* matching is no error
DeleteHabitLog(hid, d) ==
    /\ habit_logs' = {l \in habit_logs : ~(l.habit_id = hid /\ l.completed_date = d)}
    /\ UNCHANGED <<levelVars, aggVars, shellVars, pageVars, chartVars, exportVars,
                   users, nextUserId, habits, nextHabitId, nextLogId, tasks, nextTaskId>>

\* INSERT INTO tasks (user_id, ...): user_id REFERENCES users(id)
InsertTask(u) ==
    /\ nextTaskId <= MaxTasks
    /\ nextTaskId' = nextTaskId + 1
    /\ tasks' = IF u \in users THEN tasks \cup {[id |-> nextTaskId, user_id |-> u]}
                ELSE tasks
    /\ UNCHANGED <<levelVars, aggVars, shellVars, pageVars, chartVars, exportVars,
                   users, nextUserId, habits, habit_logs, nextHabitId, nextLogId>>

\* DELETE FROM tasks WHERE id = t
DeleteTask(t) ==
    /\ tasks' = {x \in tasks : x.id # t}
    /\ UNCHANGED <<levelVars, aggVars, shellVars, pageVars, chartVars, exportVars,
                   users, nextUserId, habits, habit_logs, nextHabitId, nextLogId,
                   nextTaskId>>

\* the logs of the habits hs: what ON DELETE CASCADE leaves of habit_logs
\* when hs are the habits left
LogsOf(hs) == {l \in habit_logs : \E h \in hs : h.id = l.habit_id}

DeleteHabitNoCascade(hid) ==
    /\ habits' = {h \in habits : h.id # hid}
    /\ UNCHANGED habit_logs
    /\ UNCHANGED <<levelVars, aggVars, shellVars, pageVars, chartVars, exportVars,
                   users, nextUserId, nextHabitId, nextLogId, tasks, nextTaskId>>

\* DELETE FROM habits WHERE id = hid: habit_logs.habit_id REFERENCES
\* habits(id) ON DELETE CASCADE
DeleteHabit(hid) ==
    /\ habits' = {h \in habits : h.id # hid}
    /\ habit_logs' = LogsOf(habits')
    /\ UNCHANGED <<levelVars, aggVars, shellVars, pageVars, chartVars, exportVars,
                   users, nextUserId, nextHabitId, nextLogId, tasks, nextTaskId>>

\* DELETE FROM users WHERE id = u: habits.user_id and tasks.user_id REFERENCES
\* users(id) ON DELETE CASCADE, and the habits deleted take their logs along
DeleteUser(u) ==
    /\ users' = users \ {u}
    /\ habits' = {h \in habits : h.user_id # u}
    /\ habit_logs' = LogsOf(habits')
    /\ tasks' = {t \in tasks : t.user_id # u}
    /\ UNCHANGED <<levelVars, aggVars, shellVars, pageVars, chartVars, exportVars,
                   nextUserId, nextHabitId, nextLogId, nextTaskId>>

\* the active habits of user u: SELECT COUNT(*) FROM habits WHERE user_id = u
\* AND is_active = TRUE counts them
ActiveHabits(u) == {h \in habits : h.user_id = u /\ h.is_active}

\* FROM habits h LEFT JOIN habit_logs hl ON h.id = hl.habit_id WHERE
\* h.is_active = TRUE: a row per log of an active habit, and a row of NULLs
\* for an active habit that has no log
LeftJoin(hs) ==
    {[user_id |-> p[1].user_id, habit_id |-> p[2].habit_id,
      completed_date |-> p[2].completed_date] :
        p \in {q \in hs \X habit_logs : q[2].habit_id = q[1].id}}
    \cup {[user_id |-> h.user_id, habit_id |-> NULL, completed_date |-> NULL] :
        h \in {x \in hs : ~\E l \in habit_logs : l.habit_id = x.id}}

JoinedRowsInactiveToo == LeftJoin(habits)

JoinedRows == LeftJoin({h \in habits : h.is_active})

RoundedPercentageTruncated(c, t) == (10000 * c) \div t

\* ROUND(c / t * 100, 2) in hundredths of a percent, rounding half up
RoundedPercentage(c, t) == ((2 * 10000 * c) + t) \div (2 * t)

\* PostgreSQL: ROUND(c::DECIMAL / NULLIF(t, 0) * 100, 2); NULL when t is 0
PercentagePg(c, t) == IF t = 0 THEN NULL ELSE RoundedPercentage(c, t)

\* MySQL: ROUND((c / t) * 100, 2); a division by zero gives NULL
PercentageMy(c, t) == IF t = 0 THEN NULL ELSE RoundedPercentage(c, t)

\* the rows of the view: GROUP BY h.user_id, hl.completed_date, with COUNT(
\* DISTINCT hl.habit_id), which does not count NULL
DailyHabitStats(postgres) ==
    {LET group == {r \in JoinedRows : r.user_id = g[1] /\ r.completed_date = g[2]}
         c == Cardinality({r.habit_id : r \in group} \ {NULL})
         t == Cardinality(ActiveHabits(g[1]))
     IN [user_id |-> g[1], completed_date |-> g[2], completed_count |-> c,
         total_habits |-> t,
         completion_percentage |->
             IF postgres THEN PercentagePg(c, t) ELSE PercentageMy(c, t)] :
     g \in {<<r.user_id, r.completed_date>> : r \in JoinedRows}}

daily_habit_stats == DailyHabitStats(TRUE)

daily_habit_stats_mysql == DailyHabitStats(FALSE)

(***************************************************************************)
(* The analytics aggregators of the backend.  Their code is not among the  *)
(* sources; they are modelled from their design.  Days are whole numbers,  *)
(* a habit's log is the set of its completed days.                         *)
(***************************************************************************)
\* the day the aggregators take for today
Today == MaxDays

RECURSIVE RunEndingAt(_, _)
\* the number of consecutive present dates that ends at day d
RunEndingAt(dates, d) == IF d \in dates THEN 1 + RunEndingAt(dates, d - 1) ELSE 0

CurrentStreakFromTodayOnly(dates, today) == RunEndingAt(dates, today)

\* current streak: the consecutive present dates starting at today or, when
\* today is not logged, at yesterday
CurrentStreak(dates, today) ==
    IF today \in dates THEN RunEndingAt(dates, today)
    ELSE RunEndingAt(dates, today - 1)

BestStreakOfGaps(dates) ==
    IF dates = {} THEN 0
    ELSE (CHOOSE n \in {RunEndingAt(dates, d) : d \in dates} :
             \A d \in dates : RunEndingAt(dates, d) <= n) - 1

\* best streak: the longest run of consecutive present dates in the window
BestStreak(dates) ==
    IF dates = {} THEN 0
    ELSE CHOOSE n \in {RunEndingAt(dates, d) : d \in dates} :
             \A d \in dates : RunEndingAt(dates, d) <= n

CompletionRateOfNoDays(present, elapsed) ==
    IF elapsed = 0 THEN 100 ELSE ((2 * 100 * present) + elapsed) \div (2 * elapsed)

\* completion rate: present days / elapsed days x 100, rounded to the whole
\* percent; 0 when no day has elapsed
CompletionRate(present, elapsed) ==
    IF elapsed = 0 THEN 0 ELSE ((2 * 100 * present) + elapsed) \div (2 * elapsed)

\* the record of a habit whose window runs from day from to day to and whose
\* log holds the days logged
HabitStrength(from, to, logged) ==
    LET dates == logged \cap (from..to)
        elapsed == IF to >= from THEN to - from + 1 ELSE 0
    IN [completion_rate |-> CompletionRate(Cardinality(dates), elapsed),
        current_streak |-> CurrentStreak(dates, to),
        best_streak |-> BestStreak(dates)]

\* GET /api/analytics/habit-strength answered for one habit
HabitStrengthRequest(from, logged) ==
    /\ query' = [kind |-> "strength", from |-> from, to |-> Today, logged |-> logged]
    /\ answer' = [kind |-> "strength", stats |-> HabitStrength(from, Today, logged)]
    /\ UNCHANGED <<levelVars, shellVars, pageVars, chartVars, exportVars, dbVars>>

\* the least number of days two habits must share for a correlation
MinOverlap == 7

\* n x (sum of squares) - (sum)^2 of a 0/1 vector with the days x set among
\* n days: n^2 times its variance
Variance(x, n) == (n * Cardinality(x)) - (Cardinality(x) * Cardinality(x))

\* n x (sum of products) - (sum x sum): n^2 times the covariance
Covariance(x, y, n) ==
    (n * Cardinality(x \cap y)) - (Cardinality(x) * Cardinality(y))

PearsonAsCoOccurrence(x, y, n) == [num |-> Cardinality(x \cap y), den |-> n * n]

\* The Pearson coefficient of the two vectors, as the pair (num, den) of the
\* coefficient num / sqrt(den); a vector always or never set has no variance
\* and the coefficient is reported as 0
Pearson(x, y, n) ==
    IF Variance(x, n) = 0 \/ Variance(y, n) = 0 THEN [num |-> 0, den |-> 1]
    ELSE [num |-> Covariance(x, y, n), den |-> Variance(x, n) * Variance(y, n)]

CorrelationNoVarianceCheck(x, y, n) ==
    IF n < MinOverlap THEN [status |-> "unavailable", num |-> 0, den |-> 1]
    ELSE [status |-> "ok", num |-> Covariance(x, y, n),
          den |-> Variance(x, n) * Variance(y, n)]

\* what the engine reports for a pair of habits over a window of n days
Correlation(x, y, n) ==
    IF n < MinOverlap THEN [status |-> "unavailable", num |-> 0, den |-> 1]
    ELSE [status |-> "ok", num |-> Pearson(x, y, n).num, den |-> Pearson(x, y, n).den]

\* GET /api/analytics/correlations answered for one pair of habits
CorrelationRequest(n, x, y) ==
    /\ query' = [kind |-> "correlation", n |-> n, a |-> x, b |-> y]
    /\ answer' = [kind |-> "correlation", pair |-> Correlation(x, y, n)]
    /\ UNCHANGED <<levelVars, shellVars, pageVars, chartVars, exportVars, dbVars>>

\* a JSON number as JavaScript holds it, and the values that are none
Number(n) == [t |-> "number", v |-> n]
NaN == [t |-> "NaN", v |-> 0]

PercentageChangeOfNew(p1, p2) ==
    IF p1 = 0 THEN Number(100) ELSE Number(((p2 - p1) * 100) \div p1)

\* percentage change = (period2 - period1) / period1 x 100, to the whole
\* percent; with period1 = 0 the sentinel 0 is reported
PercentageChange(p1, p2) ==
    IF p1 = 0 THEN Number(0) ELSE Number(((p2 - p1) * 100) \div p1)

\* the comparison of the counts c of two periods
Comparison(c) ==
    [habits_change |-> PercentageChange(c.habits1, c.habits2),
     tasks_change |-> PercentageChange(c.tasks1, c.tasks2)]

\* JavaScript's x >= 0: null counts as 0, a string that is no number and
\* NaN compare false
GreaterOrEqualZero(x) ==
    CASE x.t = "number" -> x.v >= 0
      [] x.t = "null" -> TRUE
      [] OTHER -> FALSE

\* Math.abs(x)
MathAbs(x) ==
    CASE x.t = "number" -> Number(IF x.v < 0 THEN 0 - x.v ELSE x.v)
      [] x.t = "null" -> Number(0)
      [] OTHER -> NaN

ChangeItemZeroIsFalsy(change) ==
    [class |-> IF GreaterOrEqualZero(change) THEN "positive" ELSE "negative",
     arrow |-> IF GreaterOrEqualZero(change) THEN "up" ELSE "down",
     value |-> IF change.t = "number" /\ change.v = 0 THEN NaN ELSE MathAbs(change)]

\* a change-item of comparisonChanges: its class, its arrow and the value
\* shown before the percent sign
ChangeItem(change) ==
    [class |-> IF GreaterOrEqualZero(change) THEN "positive" ELSE "negative",
     arrow |-> IF GreaterOrEqualZero(change) THEN "up" ELSE "down",
     value |-> MathAbs(change)]

\* GET /api/analytics/comparison answered for the counts c, and the changes
\* renderComparisonChart displays for the answer
ComparisonRequest(c) ==
    /\ query' = [kind |-> "comparison", counts |-> c]
    /\ answer' = [kind |-> "comparison",
                  comparison |-> Comparison(c),
                  habits |-> ChangeItem(Comparison(c).habits_change),
                  tasks |-> ChangeItem(Comparison(c).tasks_change)]
    /\ UNCHANGED <<levelVars, shellVars, pageVars, chartVars, exportVars, dbVars>>

(***************************************************************************)
(* Theme: the data-theme attribute and its copy in localStorage.           *)
(***************************************************************************)
Themes == {"dark", "light"}

StorageKeys == {"lifesync-theme", "user"}

\* Theme.get: getAttribute('data-theme') || 'dark'
ThemeGet == IF dataTheme = "null" THEN "dark" ELSE dataTheme

NewThemeAlwaysLight(current) == "light"

\* const newTheme = current === 'dark' ? 'light' : 'dark'
NewTheme(current) == IF current = "dark" THEN "light" ELSE "dark"

\* Theme.apply(theme), called by op: the attribute and the item are set, and
\* the preference is PUT when a user is stored
ThemeApply(op, theme) ==
    /\ Len(themeTrail) < MaxThemeCalls
    /\ dataTheme' = theme
    /\ localStorage' = [localStorage EXCEPT !["lifesync-theme"] = theme]
    /\ themePuts' = IF localStorage["user"] # "null" THEN themePuts + 1 ELSE themePuts
    /\ themeTrail' = Append(themeTrail, [op |-> op, before |-> ThemeGet, theme |-> theme])

\* Theme.init
ThemeInit ==
    /\ ThemeApply("init", IF localStorage["lifesync-theme"] = "null" THEN "dark"
                          ELSE localStorage["lifesync-theme"])
    /\ UNCHANGED <<levelVars, aggVars, transitioning, themeTimers, paletteVars, authVars,
                   periodVars, pageVars, chartVars, exportVars, dbVars>>

\* Theme.toggle, whoever calls it
Toggled ==
    /\ ThemeApply("toggle", NewTheme(ThemeGet))
    /\ transitioning' = TRUE
    /\ themeTimers' = themeTimers + 1

\* Theme.toggle
ThemeToggle ==
    /\ Toggled
    /\ UNCHANGED <<levelVars, aggVars, paletteVars, authVars, periodVars, pageVars,
                   chartVars, exportVars, dbVars>>

\* a callback of line 30 runs, 300 ms after its toggle
ThemeTimeout ==
    /\ themeTimers > 0
    /\ themeTimers' = themeTimers - 1
    /\ transitioning' = FALSE
    /\ UNCHANGED <<levelVars, aggVars, dataTheme, localStorage, themePuts, themeTrail,
                   paletteVars, authVars, periodVars, pageVars, chartVars, exportVars, dbVars>>

\* a PUT of the preference is answered, or fails: .catch(() => {}) drops
\* the failure and nothing reads the answer
ThemePutSettled ==
    /\ themePuts > 0
    /\ themePuts' = themePuts - 1
    /\ UNCHANGED <<levelVars, aggVars, dataTheme, localStorage, transitioning,
                   themeTimers, themeTrail, paletteVars, authVars, periodVars, pageVars,
                   chartVars, exportVars, dbVars>>

(***************************************************************************)
(* CommandPalette. Strings are sequences of characters, so that filter can  *)
(* search a title for the query.                                           *)
(***************************************************************************)
commands ==
    <<[id |-> "home",
       title |-> <<"G", "o", " ", "t", "o", " ", "H", "o", "m", "e">>],
      [id |-> "dashboard",
       title |-> <<"G", "o", " ", "t", "o", " ", "D", "a", "s", "h", "b", "o", "a", "r", "d">>],
      [id |-> "tasks",
       title |-> <<"G", "o", " ", "t", "o", " ", "T", "a", "s", "k", "s">>],
      [id |-> "habits",
       title |-> <<"G", "o", " ", "t", "o", " ", "H", "a", "b", "i", "t", "s">>],
      [id |-> "calendar",
       title |-> <<"G", "o", " ", "t", "o", " ", "C", "a", "l", "e", "n", "d", "a", "r">>],
      [id |-> "analytics",
       title |-> <<"G", "o", " ", "t", "o", " ", "A", "n", "a", "l", "y", "t", "i", "c", "s">>],
      [id |-> "theme",
       title |-> <<"T", "o", "g", "g", "l", "e", " ", "T", "h", "e", "m", "e">>],
      [id |-> "logout",
       title |-> <<"L", "o", "g", "o", "u", "t">>]>>

\* String.prototype.toLowerCase
toLowerCase(str) ==
    LET UpperCase ==
            <<"A", "B", "C", "D", "E", "F", "G", "H", "I", "J", "K", "L", "M", "N", "O", "P", "Q", "R", "S", "T", "U", "V", "W", "X", "Y", "Z">>
        LowerCase ==
            <<"a", "b", "c", "d", "e", "f", "g", "h", "i", "j", "k", "l", "m", "n", "o", "p", "q", "r", "s", "t", "u", "v", "w", "x", "y", "z">>
    IN [i \in DOMAIN str |->
           IF \E k \in DOMAIN UpperCase : UpperCase[k] = str[i]
           THEN LowerCase[CHOOSE k \in DOMAIN UpperCase : UpperCase[k] = str[i]]
           ELSE str[i]]

\* String.prototype.includes
includes(str, part) ==
    \E i \in 1..(Len(str) - Len(part) + 1) : SubSeq(str, i, i + Len(part) - 1) = part

\* what the user may type into cmdInput: nothing, go, the, LOG, zz
Queries == {<<>>, <<"g", "o">>, <<"t", "h", "e">>, <<"L", "O", "G">>, <<"z", "z">>}

Keys == {"Ctrl+K", "Escape", "ArrowDown", "ArrowUp", "Enter"}

\* CommandPalette.close
Close(p) == [p EXCEPT !.isOpen = FALSE, !.overlayOpen = FALSE]

\* CommandPalette.renderList(items): list is what cmdList shows (no item for
\* 'No commands found'), active the indexes of the items of class active
RenderList(p, items) ==
    IF Len(items) = 0
    THEN [p EXCEPT !.list = <<>>, !.active = {}]
    ELSE [p EXCEPT !.currentItems = items, !.activeIndex = 0,
                   !.list = items, !.active = {0}]

\* CommandPalette.filter(query), with value for the query; the commands go by
\* their ids
Filter(p, value) ==
    LET filtered == SelectSeq(commands, LAMBDA cmd :
                        includes(toLowerCase(cmd.title), toLowerCase(value)))
    IN RenderList(p, [i \in DOMAIN filtered |-> filtered[i].id])

\* CommandPalette.open
Open(p) == Filter([p EXCEPT !.isOpen = TRUE, !.overlayOpen = TRUE, !.input = <<>>], <<>>)

\* CommandPalette.toggle
Toggle(p) == IF p.isOpen THEN Close(p) ELSE Open(p)

\* CommandPalette.navigate(dir): items[this.activeIndex] of an index past the
\* last item is undefined, and reading its classList throws
Navigate(p, dir) ==
    LET n == Len(p.list)
        next == (p.activeIndex + dir + n) % n
    IN IF n = 0 THEN p
       ELSE IF p.activeIndex >= n THEN [p EXCEPT !.threw = TRUE]
       ELSE [p EXCEPT !.active = (@ \ {p.activeIndex}) \cup {next}, !.activeIndex = next]

ExecuteLeavingOpen(p) ==
    IF p.activeIndex + 1 \in DOMAIN p.currentItems
    THEN [p EXCEPT !.ran = Append(@, p.currentItems[p.activeIndex + 1])]
    ELSE p

\* CommandPalette.execute: ran lists the commands whose action was called
Execute(p) ==
    IF p.activeIndex + 1 \in DOMAIN p.currentItems
    THEN Close([p EXCEPT !.ran = Append(@, p.currentItems[p.activeIndex + 1])])
    ELSE p

\* CommandPalette.executeIndex(index)
ExecuteIndex(p, index) == Execute([p EXCEPT !.activeIndex = index])

\* the keydown listener of bindEvents
OnKeyDown(p, key) ==
    LET q == IF key = "Ctrl+K" THEN Toggle(p) ELSE p
    IN IF ~q.isOpen THEN q
       ELSE CASE key = "Escape" -> Close(q)
              [] key = "ArrowDown" -> Navigate(q, 1)
              [] key = "ArrowUp" -> Navigate(q, -1)
              [] key = "Enter" -> Execute(q)
              [] OTHER -> q

RECURSIVE Dispatch(_, _, _)
\* a keydown event: the n listeners run one after the other
Dispatch(p, key, n) == IF n = 0 THEN p ELSE Dispatch(OnKeyDown(p, key), key, n - 1)

\* the palette before an event: no action called, no exception thrown yet
Fresh(p) == [p EXCEPT !.ran = <<>>, !.threw = FALSE]

\* the ids of the elements render inserts
OverlayIds == {"cmdOverlay", "cmdInput", "cmdList"}

\* document.getElementById(id), as far as the palette's elements go
HasElement(id) == overlays > 0 /\ id \in OverlayIds

\* CommandPalette.render: the overlay is inserted unless the document has an
\* element of id cmdPalette
Render == overlays' = IF HasElement("cmdPalette") THEN overlays ELSE overlays + 1

(***************************************************************************)
(* Auth.logout                                                             *)
(***************************************************************************)
\* Auth.logout up to its await, whoever calls it
LogoutStarted ==
    /\ logoutJobs < MaxLogouts
    /\ logoutJobs' = logoutJobs + 1
    /\ UNCHANGED <<href, introShown, logoutOutcome>>

\* Auth.logout (up to its await)
LogoutCall ==
    /\ href = "here"
    /\ LogoutStarted
    /\ UNCHANGED <<levelVars, aggVars, themeVars, paletteVars, periodVars, pageVars,
                   chartVars, exportVars, dbVars>>

\* Auth.logout after its await: API.post threw and the exception leaves the
\* function, or it returned a body and the three statements run
LogoutResume ==
    /\ href = "here" /\ logoutJobs > 0
    /\ logoutJobs' = logoutJobs - 1
    /\ \E result \in Results({"logged out"}, "") :
         IF result.threw
         THEN /\ logoutOutcome' = [how |-> "rejected", success |-> FALSE]
              /\ UNCHANGED <<localStorage, introShown, href>>
         ELSE /\ localStorage' = [localStorage EXCEPT !["user"] = "null"]
              /\ introShown' = FALSE
              /\ href' = "/"
              /\ logoutOutcome' = [how |-> "redirected", success |-> result.success]
    /\ UNCHANGED <<levelVars, aggVars, dataTheme, transitioning, themeTimers, themePuts,
                   themeTrail, paletteVars, periodVars, pageVars, chartVars, exportVars,
                   dbVars>>

(***************************************************************************)
(* The palette's events                                                    *)
(***************************************************************************)
\* CommandPalette.render
PaletteRender ==
    /\ overlays < MaxRenders
    /\ Render
    /\ UNCHANGED <<levelVars, aggVars, themeVars, palette, listeners, events, lastEvent,
                   authVars, periodVars, pageVars, chartVars, exportVars, dbVars>>

\* CommandPalette.init
PaletteInit ==
    /\ overlays < MaxRenders
    /\ Render
    /\ listeners' = listeners + 1
    /\ UNCHANGED <<levelVars, aggVars, themeVars, palette, events, lastEvent,
                   authVars, periodVars, pageVars, chartVars, exportVars, dbVars>>

\* the action of a command of lines 8-15
CommandAction(id) ==
    CASE id = "theme" -> Toggled /\ UNCHANGED authVars
      [] id = "logout" -> LogoutStarted /\ UNCHANGED themeVars
      [] OTHER -> /\ href' = <<"/", id>>
                  /\ UNCHANGED <<themeVars, introShown, logoutJobs, logoutOutcome>>

\* an event of the user, of which the handlers made the palette p
Handled(event, p) ==
    /\ href = "here" /\ events < MaxEvents
    /\ events' = events + 1
    /\ lastEvent' = event
    /\ palette' = p
    /\ IF p.ran = <<>> THEN UNCHANGED <<themeVars, authVars>> ELSE CommandAction(p.ran[1])
    /\ UNCHANGED <<levelVars, aggVars, overlays, listeners, periodVars, pageVars,
                   chartVars, exportVars, dbVars>>

Event(kind, key, value, index) ==
    [kind |-> kind, key |-> key, query |-> value, index |-> index]

\* a key is pressed
KeyDown(key) ==
    /\ listeners > 0
    /\ Handled(Event("keydown", key, <<>>, 0), Dispatch(Fresh(palette), key, listeners))

\* the user types or pastes, and cmdInput holds value: the listeners of line
\* 54 all do the same
Input(value) ==
    /\ listeners > 0 /\ palette.overlayOpen
    /\ Handled(Event("input", "", value, 0),
               Filter([Fresh(palette) EXCEPT !.input = value], value))

\* the user clicks the item of data-index index
ClickItem(index) ==
    /\ palette.overlayOpen /\ index < Len(palette.list)
    /\ Handled(Event("click", "", <<>>, index), ExecuteIndex(Fresh(palette), index))

\* the user clicks the overlay beside the modal
ClickOverlay ==
    /\ listeners > 0 /\ palette.overlayOpen
    /\ Handled(Event("click", "", <<>>, -1), Close(Fresh(palette)))

(***************************************************************************)
(* changePeriod                                                            *)
(***************************************************************************)
\* changePeriod(period): renderProductivityChart runs up to its await, then
\* the period-btn whose data-period is period, if any, is the active one
ChangePeriod(period) ==
    /\ callsLeft > 0 /\ ~hung
    /\ callsLeft' = callsLeft - 1
    /\ Start({"productivity"}, ArgsFor("productivity", period))
    /\ activePeriod' = IF period \in Periods THEN period ELSE "none"
    /\ UNCHANGED <<levelVars, aggVars, themeVars, paletteVars, authVars, tz, currentYear,
                   dom, hung, initRun, outcome, shown, dataMap, gridStart, weekCount,
                   chartVars, exportVars, dbVars>>

(***************************************************************************)
(* API.get, post, put, patch and delete: each hands its request to         *)
(* API.request                                                             *)
(***************************************************************************)
Methods == {"GET", "POST", "PUT", "PATCH", "DELETE"}

\* a call of API.get, post, put, patch or delete that fetch answers with resp
APICall(method, resp) ==
    /\ query' = [kind |-> "request", method |-> method, response |-> resp]
    /\ answer' = [kind |-> "request", result |-> APIrequest(resp)]
    /\ UNCHANGED <<levelVars, shellVars, pageVars, chartVars, exportVars, dbVars>>

(***************************************************************************)
(* Initial states                                                          *)
(***************************************************************************)
LevelIdle == percentage = 0 /\ heatLevel = -1

\* no aggregator has been asked anything
\* the page's scripts loaded, none of Theme's functions called yet: no
\* theme saved, a user stored or not
ThemeLoaded(storedUsers) ==
    /\ dataTheme = "null"
    /\ localStorage \in [StorageKeys -> {"null"} \cup storedUsers]
    /\ localStorage["lifesync-theme"] = "null"
    /\ transitioning = FALSE /\ themeTimers = 0 /\ themePuts = 0
    /\ themeTrail = <<>>

\* CommandPalette as the object literal makes it, after inits calls of init
PaletteLoaded(inits) ==
    /\ palette = [isOpen |-> FALSE, activeIndex |-> 0, currentItems |-> <<>>,
                  list |-> <<>>, active |-> {}, overlayOpen |-> FALSE, input |-> <<>>,
                  ran |-> <<>>, threw |-> FALSE]
    /\ overlays = inits /\ listeners = inits
    /\ events = 0
    /\ lastEvent = Event("none", "", <<>>, 0)

\* nobody has called Auth.logout; the intro was shown or not
AuthIdle(intros) ==
    /\ href = "here"
    /\ introShown \in intros
    /\ logoutJobs = 0
    /\ logoutOutcome = [how |-> "none", success |-> FALSE]

\* the rest of the page loaded: the palette initialised, nobody logging out,
\* the button of the default period active
ShellRest == PaletteLoaded(1) /\ AuthIdle({FALSE}) /\ activePeriod = "month"

ShellIdle == ThemeLoaded({}) /\ ShellRest

AggIdle == query = [kind |-> "none"] /\ answer = [kind |-> "none"]

\* the page as loaded: nothing requested, nothing drawn
PageLoaded(offsets, doms, budget) ==
    /\ tz \in offsets
    /\ currentYear = MinYear
    /\ dom \in doms
    /\ hung = FALSE
    /\ callsLeft = budget
    /\ initRun = FALSE
    /\ sent = {}
    /\ inflight = [w \in Widgets |-> <<>>]
    /\ outcome = [w \in Widgets |-> NoOutcome]
    /\ shown = [e \in Panels |-> Blank]
    /\ dataMap = {}
    /\ gridStart = 0
    /\ weekCount = 0
    /\ charts = {}
    /\ productivityChart = 0
    /\ comparisonChart = 0
    /\ nextChartId = 1
    /\ disabled = [b \in Buttons |-> FALSE]
    /\ csvJobs = 0
    /\ pdfJobs = <<>>
    /\ toast = [x \in {"csv", "pdf"} |-> "none"]
    /\ downloads = 0

\* the schema just created: every table empty, every sequence at 1
DbEmpty ==
    /\ users = {}
    /\ nextUserId = 1
    /\ habits = {}
    /\ habit_logs = {}
    /\ nextHabitId = 1
    /\ nextLogId = 1
    /\ tasks = {}
    /\ nextTaskId = 1

\* a store in use: a user with a habit logged once and a task
DbSample ==
    /\ users = {1}
    /\ nextUserId = 2
    /\ habits = {[id |-> 1, user_id |-> 1, is_active |-> TRUE]}
    /\ habit_logs = {[id |-> 1, habit_id |-> 1, completed_date |-> 1]}
    /\ nextHabitId = 2
    /\ nextLogId = 2
    /\ tasks = {[id |-> 1, user_id |-> 1]}
    /\ nextTaskId = 2

\* the elements of the page the script runs on: the analytics page with all
\* of them, or a page that lacks some
Doms == {Elements, Elements \ {"heatmapContainer", "comparisonChanges", "exportCSVBtn"}}

(***************************************************************************)
(* getHeatmapLevel applied to every whole percentage                       *)
(***************************************************************************)
InitLevel == LevelIdle /\ AggIdle /\ ShellIdle /\ PageLoaded({0}, {Elements}, 0) /\ DbEmpty

GetHeatmapLevelCall(p) ==
    /\ percentage' = p
    /\ heatLevel' = getHeatmapLevel(p)
    /\ UNCHANGED <<aggVars, shellVars, pageVars, chartVars, exportVars, dbVars>>

NextLevel == \E p \in 0..MaxPct : GetHeatmapLevelCall(p)

SpecLevel == InitLevel /\ [][NextLevel]_vars

(***************************************************************************)
(* One call of renderHeatmapCalendar, for any year and any UTC offset      *)
(***************************************************************************)
YearArgs == Years \cup {-1}

InitHeatmap ==
    /\ LevelIdle /\ AggIdle /\ ShellIdle
    /\ PageLoaded(TzOffsets, {Elements, Elements \ {"heatmapContainer"}}, 1)
    /\ DbEmpty

NextHeatmap ==
    \/ \E y \in YearArgs : RenderHeatmapCalendarCall(y)
    \/ RenderHeatmapCalendarResume

SpecHeatmap == InitHeatmap /\ [][NextHeatmap]_vars

(***************************************************************************)
(* The analytics page: one call of any of its functions, the responses     *)
(* arriving in any order                                                   *)
(***************************************************************************)
Init == LevelIdle /\ AggIdle /\ ShellIdle /\ PageLoaded({0}, Doms, PageCalls) /\ DbSample

Next ==
    \/ InitAdvancedAnalytics
    \/ RenderHeatmapCalendarCall(currentYear)
    \/ \E p \in Periods : RenderProductivityChartCall(p)
    \/ RenderHabitStrengthCall
    \/ RenderCorrelationMatrixCall
    \/ RenderComparisonChartCall
    \/ RenderHeatmapCalendarResume
    \/ RenderProductivityChartResume
    \/ RenderHabitStrengthResume
    \/ RenderCorrelationMatrixResume
    \/ RenderComparisonChartResume
    \/ ExportToCSVCall
    \/ ExportToCSVResume
    \/ ExportToPDFCall
    \/ ExportToPDFResponse

Spec == Init /\ [][Next]_vars

(***************************************************************************)
(* The two charts redrawn again and again, the calls overlapping           *)
(***************************************************************************)
InitCharts == LevelIdle /\ AggIdle /\ ShellIdle /\ PageLoaded({0}, {Elements}, MaxCalls) /\ DbEmpty

NextCharts ==
    \/ \E p \in PeriodArgs : RenderProductivityChartCall(p)
    \/ RenderComparisonChartCall
    \/ RenderProductivityChartResume
    \/ RenderComparisonChartResume

SpecCharts == InitCharts /\ [][NextCharts]_vars

(***************************************************************************)
(* The exports called again and again, the calls overlapping               *)
(***************************************************************************)
InitExport == LevelIdle /\ AggIdle /\ ShellIdle /\ PageLoaded({0}, {Elements, Elements \ Buttons}, MaxCalls) /\ DbEmpty

NextExport ==
    \/ ExportToCSVCall
    \/ ExportToCSVResume
    \/ ExportToPDFCall
    \/ ExportToPDFResponse

SpecExport == InitExport /\ [][NextExport]_vars

(***************************************************************************)
(* The exports started by their buttons                                    *)
(***************************************************************************)
InitClicks == LevelIdle /\ AggIdle /\ ShellIdle /\ PageLoaded({0}, {Elements}, MaxCalls) /\ DbEmpty

NextClicks ==
    \/ ExportCSVClick
    \/ ExportToCSVResume
    \/ ExportPDFClick
    \/ ExportToPDFResponse

SpecClicks == InitClicks /\ [][NextClicks]_vars

(***************************************************************************)
(* The store under the statements its schema admits                        *)
(***************************************************************************)
InitStats == LevelIdle /\ AggIdle /\ ShellIdle /\ PageLoaded({0}, {Elements}, 0) /\ DbEmpty

NextStats ==
    \/ InsertUser
    \/ \E u \in users : InsertHabit(u)
    \/ \E h \in habits : DeactivateHabit(h)
    \/ \E h \in habits, d \in Dates : InsertHabitLog(h.id, d)
    \/ \E h \in habits, d \in Dates : DeleteHabitLog(h.id, d)

SpecStats == InitStats /\ [][NextStats]_vars

(***************************************************************************)
(* The store under inserts and deletes, the deletes cascading              *)
(***************************************************************************)
UserIds == 1..MaxUsers
HabitIds == 1..MaxHabits
TaskIds == 1..MaxTasks

InitStore == LevelIdle /\ AggIdle /\ ShellIdle /\ PageLoaded({0}, {Elements}, 0) /\ DbEmpty

NextStore ==
    \/ InsertUser
    \/ \E u \in UserIds : InsertHabit(u)
    \/ \E hid \in HabitIds, d \in Dates : InsertHabitLog(hid, d)
    \/ \E u \in UserIds : InsertTask(u)
    \/ \E t \in TaskIds : DeleteTask(t)
    \/ \E hid \in HabitIds : DeleteHabit(hid)
    \/ \E u \in UserIds : DeleteUser(u)

SpecStore == InitStore /\ [][NextStore]_vars

(***************************************************************************)
(* The streak calculator asked about every window and every log            *)
(***************************************************************************)
InitStreak == LevelIdle /\ AggIdle /\ ShellIdle /\ PageLoaded({0}, {Elements}, 0) /\ DbEmpty

NextStreak ==
    \E from \in 1..(Today + 1), logged \in SUBSET (1..Today) :
        HabitStrengthRequest(from, logged)

SpecStreak == InitStreak /\ [][NextStreak]_vars

(***************************************************************************)
(* The correlation engine asked about every pair of logs                   *)
(***************************************************************************)
InitCorrelation == LevelIdle /\ AggIdle /\ ShellIdle /\ PageLoaded({0}, {Elements}, 0) /\ DbEmpty

\* the engine keeps nothing between requests: one request, of any window
\* and any two logs
NextCorrelation ==
    /\ query.kind = "none"
    /\ \E n \in 1..MaxWindow :
          \E x \in SUBSET (1..n), y \in SUBSET (1..n) : CorrelationRequest(n, x, y)

SpecCorrelation == InitCorrelation /\ [][NextCorrelation]_vars

(***************************************************************************)
(* The period comparator asked about every four counts                     *)
(***************************************************************************)
Counts == 0..MaxCount

InitComparator == LevelIdle /\ AggIdle /\ ShellIdle /\ PageLoaded({0}, {Elements}, 0) /\ DbEmpty

\* the comparator keeps nothing between requests: one request, of any counts
NextComparator ==
    /\ query.kind = "none"
    /\ \E h1 \in Counts, h2 \in Counts, t1 \in Counts, t2 \in Counts :
          ComparisonRequest([habits1 |-> h1, habits2 |-> h2,
                             tasks1 |-> t1, tasks2 |-> t2])

SpecComparator == InitComparator /\ [][NextComparator]_vars

(***************************************************************************)
(* Theme.init and Theme.toggle called in any order                         *)
(***************************************************************************)
InitTheme ==
    /\ LevelIdle /\ AggIdle /\ PageLoaded({0}, {Elements}, 0) /\ DbEmpty
    /\ ThemeLoaded({"user"}) /\ ShellRest

NextTheme ==
    \/ ThemeInit
    \/ ThemeToggle
    \/ ThemeTimeout
    \/ ThemePutSettled

SpecTheme == InitTheme /\ [][NextTheme]_vars

(***************************************************************************)
(* The command palette: init, render and the user's events in any order,   *)
(* with the commands' actions and the answer to a logout                   *)
(***************************************************************************)
InitPalette ==
    /\ LevelIdle /\ AggIdle /\ PageLoaded({0}, {Elements}, 0) /\ DbEmpty
    /\ ThemeLoaded({"user"}) /\ PaletteLoaded(0) /\ AuthIdle({TRUE}) /\ activePeriod = "month"

NextPalette ==
    \/ PaletteRender
    \/ PaletteInit
    \/ \E key \in Keys : KeyDown(key)
    \/ \E value \in Queries : Input(value)
    \/ \E index \in 0..(Len(commands) - 1) : ClickItem(index)
    \/ ClickOverlay
    \/ ThemeTimeout
    \/ ThemePutSettled
    \/ LogoutResume

SpecPalette == InitPalette /\ [][NextPalette]_vars

(***************************************************************************)
(* The period selector: changePeriod called up to MaxCalls times, the      *)
(* responses arriving in any order                                         *)
(***************************************************************************)
InitPeriod == LevelIdle /\ AggIdle /\ ShellIdle /\ PageLoaded({0}, {Elements}, MaxCalls) /\ DbEmpty

NextPeriod ==
    \/ \E p \in PeriodArgs : ChangePeriod(p)
    \/ RenderProductivityChartResume

SpecPeriod == InitPeriod /\ [][NextPeriod]_vars

(***************************************************************************)
(* The API layer called with every method, fetch answering in every way    *)
(***************************************************************************)
InitRequest == LevelIdle /\ AggIdle /\ ShellIdle /\ PageLoaded({0}, {Elements}, 0) /\ DbEmpty

NextRequest ==
    \E method \in Methods, resp \in HttpResponses(0..MaxBody, -1) : APICall(method, resp)

SpecRequest == InitRequest /\ [][NextRequest]_vars

(***************************************************************************)
(* Auth.logout called while the theme is initialised and toggled           *)
(***************************************************************************)
InitLogout ==
    /\ LevelIdle /\ AggIdle /\ PageLoaded({0}, {Elements}, 0) /\ DbEmpty
    /\ ThemeLoaded({"user"}) /\ PaletteLoaded(1) /\ AuthIdle(BOOLEAN) /\ activePeriod = "month"

NextLogout ==
    \/ LogoutCall
    \/ LogoutResume
    \/ ThemeInit
    \/ ThemeToggle
    \/ ThemeTimeout
    \/ ThemePutSettled

SpecLogout == InitLogout /\ [][NextLogout]_vars

(***************************************************************************)
(* Properties                                                              *)
(***************************************************************************)

\* C1: for every whole percentage p, getHeatmapLevel(p) is 0 when p = 0, 1 when
\* 1 <= p <= 25, 2 when 26 <= p <= 50, 3 when 51 <= p <= 75 and 4 from 76 on,
\* and no smaller percentage gets a higher level.
C1_HeatmapLevelThresholds ==
    heatLevel # -1 =>
        /\ (percentage = 0 => heatLevel = 0)
        /\ (1 <= percentage /\ percentage <= 25 => heatLevel = 1)
        /\ (26 <= percentage /\ percentage <= 50 => heatLevel = 2)
        /\ (51 <= percentage /\ percentage <= 75 => heatLevel = 3)
        /\ (76 <= percentage => heatLevel = 4)
        /\ \A q \in 0..percentage : getHeatmapLevel(q) <= heatLevel

\* C1 happens: the level of 25 was asked for, and is 1
C1_Witness == percentage = 25 /\ heatLevel = 1

\* the year of the grid on display: 1 January lies in the grid's first week
GridYear == getFullYear(gridStart + 6)

\* C2: once renderHeatmapCalendar has drawn the grid of a year, every date of
\* that year is the key of exactly one cell, the keys run in chronological
\* order, each cell is keyed by the calendar date of its place in the grid,
\* and a cell whose date is absent from the data has level 0.
C2_GridCoversYearByDate ==
    outcome["heatmap"].how = "rendered" =>
        LET grid == cells
            year == GridYear
        IN /\ \A d \in JanFirst(year)..DecLast(year) :
                 Cardinality({i \in DOMAIN grid : grid[i].date = d}) = 1
           /\ \A i \in DOMAIN grid : i > 1 => grid[i - 1].date < grid[i].date
           /\ \A i \in DOMAIN grid : grid[i].date = gridStart + i - 1
           /\ \A i \in DOMAIN grid : ~grid[i].hasData => grid[i].level = 0

\* C2, where the code keeps it: with the browser at or behind UTC
C2_HoldsWestOfUTC == tz <= 0 => C2_GridCoversYearByDate

\* the active habits of user u logged on date d, counted from the tables
LoggedActive(u, d) ==
    {h \in habits : h.user_id = u /\ h.is_active
                    /\ \E l \in habit_logs : l.habit_id = h.id /\ l.completed_date = d}

ActiveOf(u) == {h \in habits : h.user_id = u /\ h.is_active}

\* C3 as amended, for one of the two views: a date on which c >= 1 of the
\* user's t active habits are logged has exactly one row, with completed = c,
\* total = t and the percentage c/t x 100 rounded to two decimals; a date with
\* no such log has no row; and no row has total 0.
StatsRowsAsAmended(view) ==
    /\ \A u \in users, d \in Dates :
          LET c == Cardinality(LoggedActive(u, d))
              t == Cardinality(ActiveOf(u))
              rows == {r \in view : r.user_id = u /\ r.completed_date = d}
          IN IF c >= 1
             THEN /\ Cardinality(rows) = 1
                  /\ \A r \in rows :
                        /\ r.completed_count = c
                        /\ r.total_habits = t
                        /\ 2 * (r.completion_percentage * t - 10000 * c) <= t
                        /\ 2 * (10000 * c - r.completion_percentage * t) < t
             ELSE rows = {}
    /\ \A r \in view : r.total_habits >= 1 /\ r.completion_percentage # NULL

\* C3 (amended): both views report, for a date on which c >= 1 of the user's t
\* active habits are logged, completed = c, total = t and percentage = c/t x
\* 100 rounded to two decimals (2 of 5 gives 40.00, heatmap level 2); a user
\* with no active habit, and a date with no log, have no row at all, so no
\* row has total 0 and no division by zero occurs.
C3_DailyStatsRow ==
    /\ StatsRowsAsAmended(daily_habit_stats)
    /\ StatsRowsAsAmended(daily_habit_stats_mysql)
    /\ PercentagePg(2, 5) = 4000 /\ PercentageMy(2, 5) = 4000
    /\ getHeatmapLevel(4000 \div 100) = 2

\* C3 happens: one of a user's three active habits is logged on a date
C3_Witness ==
    \E r \in daily_habit_stats :
        r.completed_count = 1 /\ r.total_habits = 3 /\ r.completion_percentage = 3333

\* C3 as claimed: every user and date has a statistic with completed = c,
\* total = t and percentage exactly c/t x 100, which is 0 when t is 0.
C3_Original ==
    \A u \in users, d \in Dates :
        LET c == Cardinality(LoggedActive(u, d))
            t == Cardinality(ActiveOf(u))
        IN \E r \in daily_habit_stats :
              /\ r.user_id = u /\ r.completed_date = d
              /\ r.completed_count = c
              /\ r.total_habits = t
              /\ (t = 0 => r.completion_percentage = 0)
              /\ (t > 0 => r.completion_percentage * t = 10000 * c)

\* C4: after any sequence of habit creations, deactivations, marks and
\* unmarks, every row of daily_habit_stats has completed_count <=
\* total_habits and a completion percentage between 0 and 100.
C4_CompletedWithinTotal ==
    \A r \in daily_habit_stats :
        /\ r.completed_count <= r.total_habits
        /\ 0 <= r.completion_percentage /\ r.completion_percentage <= 100 * 100

\* C4 happens: a user has a row for a date on which a habit deactivated since
\* was logged too
C4_Witness ==
    \E r \in daily_habit_stats :
        /\ r.completed_count = r.total_habits
        /\ \E h \in habits :
              /\ h.user_id = r.user_id /\ ~h.is_active
              /\ \E l \in habit_logs :
                    l.habit_id = h.id /\ l.completed_date = r.completed_date

\* C5: whenever a widget's request fails (API.get rejects, or the response
\* says success = false) the failure is surfaced: the error propagates to the
\* caller or an error message is rendered.
C5_FailuresSurfaced ==
    \A w \in Widgets :
        outcome[w].kind \in {"reject", "fail"} => outcome[w].how \in {"threw", "error"}

\* C6: no request is sent for a year that is not a valid year, nor for a
\* period other than week, month and year.
C6_InvalidParameterRejected ==
    \A r \in sent :
        /\ (r.path = Endpoint("heatmap") => r.param # "NaN")
        /\ (r.path = Endpoint("productivity") => r.param \in Periods)

\* C7: when a habit-strength or correlation response succeeds with an empty
\* list, the widget shows its 'no data' placeholder and no item: not the
\* failure message, not an exception.
C7_EmptyListShowsPlaceholder ==
    \A w \in {"strength", "correlations"} :
        (outcome[w].kind = "ok" /\ outcome[w].n = 0) =>
            /\ shown[Container(w)] = [kind |-> "placeholder", n |-> 0]
            /\ outcome[w].how = "placeholder"

\* C7 happens: both list widgets got an empty list
C7_Witness ==
    /\ outcome["strength"].kind = "ok" /\ outcome["strength"].n = 0
    /\ outcome["correlations"].kind = "ok" /\ outcome["correlations"].n = 0

\* C8: every request issued by initAdvancedAnalytics, the render functions and
\* the exports is a GET, and the stored users, habits and habit logs stay as
\* they were.
C8_OnlyGetRequests ==
    /\ \A r \in sent : r.method = "GET"
    /\ DbSample

\* C8 happens: the four requests of a PDF export have been sent
C8_Witness ==
    /\ Cardinality(sent) = 4
    /\ pdfJobs # <<>>

\* what a widget shows once it has rendered
Rendered(w) ==
    CASE w = "heatmap" -> shown["heatmapContainer"].kind = "grid" /\ cells # <<>>
      [] w = "productivity" -> \E c \in charts : c.id = productivityChart
      [] w = "strength" -> shown["habitStrengthContainer"].kind \in {"placeholder", "items"}
      [] w = "correlations" -> shown["correlationContainer"].kind \in {"placeholder", "items"}
      [] w = "comparison" -> \E c \in charts : c.id = comparisonChart

\* the response of a waiting call of widget w can be handled now
CanResume(w) ==
    CASE w = "heatmap" -> ENABLED RenderHeatmapCalendarResume
      [] w = "productivity" -> ENABLED RenderProductivityChartResume
      [] w = "strength" -> ENABLED RenderHabitStrengthResume
      [] w = "correlations" -> ENABLED RenderCorrelationMatrixResume
      [] w = "comparison" -> ENABLED RenderComparisonChartResume

\* C9: once initAdvancedAnalytics has run, every widget whose element exists
\* has sent its request and waits for nothing but its own response: whatever
\* the other widgets' state (waiting, failed or done), a waiting widget's
\* response can be handled, and a widget whose response succeeded has rendered.
C9_WidgetsIndependent ==
    /\ initRun =>
          \A w \in Widgets :
              Container(w) \in dom => (inflight[w] # <<>> \/ outcome[w].kind # "none")
    /\ \A w \in Widgets :
          /\ inflight[w] # <<>> => CanResume(w)
          /\ outcome[w].kind = "ok" => Rendered(w)

\* C9 happens: the heatmap's request failed, the habit strength's response has
\* not arrived, and the productivity chart is drawn
C9_Witness ==
    /\ initRun
    /\ outcome["heatmap"].kind = "reject"
    /\ inflight["strength"] # <<>>
    /\ outcome["productivity"].kind = "ok"
    /\ \E c \in charts : c.id = productivityChart

\* C10: for each chart slot, at most one Chart instance that has not been
\* destroyed exists on its canvas, and it is the one the slot holds.
C10_OneLiveChartPerSlot ==
    /\ \A c \in charts :
          \/ c.canvas = "productivityChart" /\ c.id = productivityChart
          \/ c.canvas = "comparisonChart" /\ c.id = comparisonChart
    /\ Cardinality({c \in charts : c.canvas = "productivityChart"}) <= 1
    /\ Cardinality({c \in charts : c.canvas = "comparisonChart"}) <= 1

\* C10 happens: the productivity chart was drawn for two periods, the later
\* call's response first, and a third call is still waiting
C10_Witness ==
    /\ productivityChart = 2
    /\ comparisonChart = 0
    /\ \E c \in charts : c.id = 2 /\ c.data = "week"
    /\ inflight["productivity"] = <<"year">>
    /\ outcome["productivity"].kind = "ok"

\* the rows of habit_logs that are not the row of habit hid and date d
OtherPairs(logs, hid, d) ==
    {l \in logs : ~(l.habit_id = hid /\ l.completed_date = d)}

\* C11: habit_logs is a set keyed by (habit, date): in every state at most
\* one row exists per pair, whatever marks and unmarks were issued and by
\* whom; a mark of a marked pair and an unmark of an absent pair leave the
\* table as it was; a mark of an absent pair adds its row and an unmark
\* removes it; and neither changes a row of another pair.
C11_LogKeyedByHabitAndDate ==
    /\ [](\A l1, l2 \in habit_logs :
             (l1.habit_id = l2.habit_id /\ l1.completed_date = l2.completed_date)
                 => l1 = l2)
    /\ [][\A hid \in HabitIds, d \in Dates :
             /\ InsertHabitLog(hid, d) =>
                    /\ (Marked(hid, d) => habit_logs' = habit_logs)
                    /\ ((\E h \in habits : h.id = hid) =>
                            \E l \in habit_logs' :
                                l.habit_id = hid /\ l.completed_date = d)
                    /\ OtherPairs(habit_logs', hid, d) = OtherPairs(habit_logs, hid, d)
             /\ DeleteHabitLog(hid, d) =>
                    /\ (~Marked(hid, d) => habit_logs' = habit_logs)
                    /\ ~\E l \in habit_logs' :
                            l.habit_id = hid /\ l.completed_date = d
                    /\ OtherPairs(habit_logs', hid, d) = OtherPairs(habit_logs, hid, d)
       ]_vars

\* C11 happens: two marks were issued, the second of the pair the first had
\* marked or after an unmark, and one row is in the table
C11_Witness ==
    /\ nextLogId = 3
    /\ \E l \in habit_logs : habit_logs = {l}

\* C12: in every state each habit log references a habit of the table, and
\* each habit and each task a user of the table; after DELETE FROM users no
\* habit, log or task of that user is left, and after DELETE FROM habits no
\* log of that habit.
C12_DeletesCascade ==
    /\ [](/\ \A l \in habit_logs : \E h \in habits : h.id = l.habit_id
          /\ \A h \in habits : h.user_id \in users
          /\ \A t \in tasks : t.user_id \in users)
    /\ [][/\ \A u \in UserIds :
               DeleteUser(u) =>
                   /\ u \notin users'
                   /\ ~\E h \in habits' : h.user_id = u
                   /\ ~\E t \in tasks' : t.user_id = u
                   /\ ~\E l \in habit_logs', h \in habits :
                          h.user_id = u /\ l.habit_id = h.id
          /\ \A hid \in HabitIds :
               DeleteHabit(hid) => ~\E l \in habit_logs' : l.habit_id = hid
       ]_vars

\* C12 happens: a user was deleted after a habit was inserted and a log and
\* a task were asked for, and every table is empty
C12_Witness ==
    /\ nextUserId > 1 /\ nextHabitId > 1 /\ nextLogId > 1 /\ nextTaskId > 1
    /\ users = {} /\ habits = {} /\ habit_logs = {} /\ tasks = {}

\* the days of the window of the request that the log holds
QueryDates == query.logged \cap (query.from..query.to)

\* C13: a habit with no logged day in its window has completion_rate 0,
\* current_streak 0 and best_streak 0, also when the window has no day at all.
C13_NothingLoggedAllZero ==
    (query.kind = "strength" /\ QueryDates = {}) =>
        /\ answer.stats.completion_rate = 0
        /\ answer.stats.current_streak = 0
        /\ answer.stats.best_streak = 0

\* C13 happens: the window of the request has no day, and the rate is 0
C13_Witness ==
    /\ query.kind = "strength" /\ query.from > query.to
    /\ answer.stats.completion_rate = 0

\* C14: a habit logged on every day of a window of N >= 1 days has
\* completion_rate 100 and best_streak N.
C14_EveryDayLogged ==
    (query.kind = "strength" /\ query.from <= query.to
         /\ (query.from..query.to) \subseteq query.logged) =>
        /\ answer.stats.completion_rate = 100
        /\ answer.stats.best_streak = query.to - query.from + 1

\* C14 happens: every day of the longest window is logged
C14_Witness ==
    /\ query.kind = "strength" /\ query.from = 1 /\ query.logged = 1..Today
    /\ answer.stats.best_streak = Today

\* the length of the longest run of days of dates that ends at day e
RunLength(dates, e) ==
    CHOOSE k \in 0..e :
        /\ ((e - k + 1)..e) \subseteq dates
        /\ (k = e \/ (e - k) \notin dates)

\* C15: the current streak is the number of consecutive logged days that
\* ends at today when today is logged and at yesterday otherwise: it is 0
\* when neither is logged, and a streak that ran through yesterday stands
\* while today is not logged.
C15_CurrentStreak ==
    query.kind = "strength" =>
        LET today == query.to
            dates == QueryDates
            streak == answer.stats.current_streak
        IN /\ (today \in dates => streak = RunLength(dates, today))
           /\ (today \notin dates => streak = RunLength(dates, today - 1))
           /\ (today \notin dates /\ (today - 1) \notin dates => streak = 0)
           /\ (today \notin dates /\ (today - 1) \in dates => streak >= 1)

\* C15 happens: today is not logged, the two days before are, the streak is 2
C15_Witness ==
    /\ query.kind = "strength" /\ query.from = 1
    /\ query.logged = {Today - 2, Today - 1}
    /\ answer.stats.current_streak = 2

\* habit A logged on all 7 days of a 7-day window, habit B on days 1, 3, 5, 7
MeditationAndExercise ==
    /\ query.kind = "correlation" /\ query.n = 7
    /\ query.a = 1..7 /\ query.b = {1, 3, 5, 7}

C17_ZeroVarianceReportsZero ==
    (query.kind = "correlation" /\ answer.pair.status = "ok") =>
        /\ (query.a \in {{}, 1..query.n} \/ query.b \in {{}, 1..query.n}) =>
               answer.pair.num = 0
        /\ answer.pair.den > 0
        /\ answer.pair.num * answer.pair.num <= answer.pair.den

\* C17 happens: one habit was never completed, the other on some days
C17_Witness ==
    /\ query.kind = "correlation" /\ query.n = 7
    /\ query.a = {2, 3} /\ query.b = {}
    /\ answer.pair.status = "ok" /\ answer.pair.num = 0

\* C18: when the count of period1 is 0, the change reported is the number 0,
\* the sentinel, and the comparison view shows a number before the percent
\* sign: for the habits and for the tasks.
C18_ZeroBaseChangeIsNumber ==
    query.kind = "comparison" =>
        /\ query.counts.habits1 = 0 =>
               /\ answer.comparison.habits_change = Number(0)
               /\ answer.habits.value.t = "number"
        /\ query.counts.tasks1 = 0 =>
               /\ answer.comparison.tasks_change = Number(0)
               /\ answer.tasks.value.t = "number"

\* C18 happens: period1 has 0 habits completed and period2 has 10
C18_Witness ==
    /\ query.kind = "comparison"
    /\ query.counts.habits1 = 0 /\ query.counts.habits2 = 10
    /\ answer.habits.value = Number(0)

\* C19: a period compared with itself has habits_change 0 and tasks_change
\* 0, whatever its counts, 0 included.
C19_SamePeriodNoChange ==
    (query.kind = "comparison"
         /\ query.counts.habits1 = query.counts.habits2
         /\ query.counts.tasks1 = query.counts.tasks2) =>
        /\ answer.comparison.habits_change = Number(0)
        /\ answer.comparison.tasks_change = Number(0)

\* C19 happens: a period with no habit and three tasks completed is compared
\* with itself
C19_Witness ==
    /\ query.kind = "comparison"
    /\ query.counts = [habits1 |-> 0, habits2 |-> 0, tasks1 |-> 3, tasks2 |-> 3]
    /\ answer.comparison.tasks_change = Number(0)

\* C20: the grid renderHeatmapCalendar draws for a year starts on the latest
\* Monday on or before 1 January of that year and is made of whole weeks of
\* seven days, so every week column starts on a Monday.
C20_GridIsWholeWeeksFromMonday ==
    /\ [](outcome["heatmap"].how = "rendered" =>
             /\ weekCount >= 1
             /\ Len(cells) = 7 * weekCount
             /\ shown["heatmapContainer"] = [kind |-> "grid", n |-> 7 * weekCount]
             /\ \A w \in 0..(weekCount - 1) : getDay(gridStart + 7 * w) = 1)
    /\ [][(inflight'["heatmap"] # inflight["heatmap"]
              /\ Len(inflight["heatmap"]) = 1
              /\ outcome'["heatmap"].how = "rendered") =>
             LET year == inflight["heatmap"][1]
             IN /\ getDay(gridStart') = 1
                /\ gridStart' <= JanFirst(year)
                /\ gridStart' > JanFirst(year) - 7]_vars

\* C20 happens: the grid of a year whose 1 January is no Monday is drawn, and
\* starts in the year before
C20_Witness ==
    /\ outcome["heatmap"].how = "rendered"
    /\ getDay(JanFirst(GridYear)) # 1
    /\ gridStart < JanFirst(GridYear)
    /\ weekCount >= 52

\* C21: after any sequence of Theme.init and Theme.toggle calls that starts
\* with no saved theme, the applied theme is dark or light and equals the one
\* saved in localStorage; each toggle flips the theme, and two toggles in a
\* row restore the theme they started from.
C21_ThemeAppliedSavedAndFlipped ==
    themeTrail # <<>> =>
        /\ dataTheme \in Themes
        /\ localStorage["lifesync-theme"] = dataTheme
        /\ themeTrail[Len(themeTrail)].theme = dataTheme
        /\ \A i \in DOMAIN themeTrail :
               themeTrail[i].op = "toggle" =>
                   /\ themeTrail[i].before \in Themes
                   /\ themeTrail[i].theme \in Themes \ {themeTrail[i].before}
                   /\ (i > 1 /\ themeTrail[i - 1].op = "toggle") =>
                          themeTrail[i].theme = themeTrail[i - 1].before

\* C21 happens: the theme was initialised and toggled twice, and is dark again
C21_Witness ==
    /\ Len(themeTrail) = 3
    /\ themeTrail[1].op = "init"
    /\ themeTrail[2].op = "toggle" /\ themeTrail[3].op = "toggle"
    /\ themeTrail[2].theme = "light"
    /\ dataTheme = "dark"

\* an event of the user is handled in this step, and it is a press of key
Pressed(key) ==
    /\ events' = events + 1
    /\ lastEvent'.kind = "keydown" /\ lastEvent'.key = key

\* C22: Enter executes a command only if it is in the list the palette
\* displays when the key is pressed: with 'No commands found' on display,
\* Enter executes nothing.
C22_EnterRunsOnlyDisplayed ==
    [][Pressed("Enter") =>
          \A i \in DOMAIN palette'.ran :
              /\ palette.overlayOpen
              /\ \E j \in DOMAIN palette.list : palette.list[j] = palette'.ran[i]]_vars

\* the data of the chart in the productivity slot
ProductivityData == (CHOOSE c \in charts : c.id = productivityChart).data

\* C23: once every changePeriod call's request has completed and its chart
\* was drawn, in whichever order the responses arrived, the productivity
\* chart shows the data of the period whose button is active, the period of
\* the last call.
C23_ChartShowsActivePeriod ==
    (/\ callsLeft <= MaxCalls - 2
     /\ inflight["productivity"] = <<>>
     /\ nextChartId - 1 = MaxCalls - callsLeft
     /\ activePeriod \in Periods) =>
        /\ productivityChart # 0
        /\ ProductivityData = activePeriod

ListShown(p) == p.overlayOpen /\ p.list # <<>>

\* C25: on a page whose palette was initialised once, whenever the palette
\* shows a list of n >= 1 items, activeIndex is in 0..n-1 and the item at
\* activeIndex is the only one highlighted; every change of the filter resets
\* activeIndex to 0; ArrowDown on the last item goes to the first and ArrowUp
\* on the first goes to the last.
C25_ActiveIndexTracksList ==
    /\ []((listeners = 1 /\ ListShown(palette)) =>
             /\ palette.activeIndex \in 0..(Len(palette.list) - 1)
             /\ palette.active = {palette.activeIndex}
             /\ ~palette.threw)
    /\ [][listeners = 1 =>
             /\ (events' = events + 1 /\ lastEvent'.kind = "input") =>
                    palette'.activeIndex = 0
             /\ (Pressed("ArrowDown") /\ ListShown(palette)
                   /\ palette.activeIndex = Len(palette.list) - 1) =>
                    palette'.activeIndex = 0
             /\ (Pressed("ArrowUp") /\ ListShown(palette) /\ palette.activeIndex = 0) =>
                    palette'.activeIndex = Len(palette.list) - 1]_vars

\* C26: on a page whose palette was initialised once: while the palette is
\* closed, Escape, ArrowUp, ArrowDown and Enter change nothing of the palette
\* and execute no command; Ctrl/Cmd+K opens the closed palette and closes the
\* open one; and after a command was executed the palette is closed.
C26_ClosedPaletteIgnoresKeys ==
    /\ [](listeners = 1 =>
             /\ palette.overlayOpen = palette.isOpen
             /\ palette.ran # <<>> => ~palette.isOpen)
    /\ [][listeners = 1 =>
             /\ \A key \in Keys \ {"Ctrl+K"} :
                    (Pressed(key) /\ ~palette.isOpen) =>
                        /\ palette' = Fresh(palette)
                        /\ UNCHANGED <<overlays, listeners, themeVars, authVars>>
             /\ Pressed("Ctrl+K") => palette'.isOpen = ~palette.isOpen]_vars

\* C26 happens: the palette was opened, 'the' typed, and Enter executed
\* Toggle Theme and closed the palette
C26_Witness ==
    /\ listeners = 1
    /\ lastEvent = Event("keydown", "Enter", <<>>, 0)
    /\ palette.ran = <<"theme">>
    /\ ~palette.isOpen /\ ~palette.overlayOpen
    /\ palette.input = <<"t", "h", "e">>

\* C27: after any number of calls of CommandPalette.render and
\* CommandPalette.init the document holds exactly one command-palette overlay.
C27_RenderIsIdempotent == overlays <= 1

\* C28: API.request returns the parsed body exactly when fetch gave a
\* response that is JSON and whose status is OK or whose body has a truthy
\* success flag, and throws otherwise; a 200 response with success = false is
\* returned, not thrown.
C28_RequestReturnsOrThrows ==
    query.kind = "request" =>
        LET resp == query.response
            result == answer.result
        IN /\ ~result.threw = (resp.fetched /\ resp.json /\ (resp.ok \/ resp.success))
           /\ ~result.threw => (result.success = resp.success /\ result.payload = resp.payload)
           /\ (resp.fetched /\ resp.json /\ resp.ok /\ ~resp.success) =>
                  (~result.threw /\ ~result.success)

\* C28 happens: a POST was answered 200 with a JSON body whose success flag is
\* false, and the body was returned
C28_Witness ==
    /\ query.kind = "request" /\ query.method = "POST"
    /\ query.response.fetched /\ query.response.json
    /\ query.response.ok /\ ~query.response.success
    /\ ~answer.result.threw /\ ~answer.result.success

\* C29: Auth.logout removes the stored user and the introShown flag and
\* redirects to '/' only after the logout request has succeeded; when the
\* request fails, the stored user and the flag are left as they were, no
\* redirect happens and the error propagates to the caller.
C29_LogoutOnlyAfterSuccess ==
    /\ [](logoutOutcome.how = "redirected" => logoutOutcome.success)
    /\ [][logoutJobs' < logoutJobs =>
             /\ logoutOutcome'.success =>
                    /\ localStorage'["user"] = "null" /\ ~introShown'
                    /\ href' = "/"
             /\ ~logoutOutcome'.success =>
                    /\ logoutOutcome'.how = "rejected"
                    /\ UNCHANGED <<localStorage, introShown, href>>]_vars

\* what the code keeps of C29: a logout whose API.post threw leaves the user,
\* the flag and the location alone and rejects
C29_HoldsWhenPostThrows ==
    [][(logoutJobs' < logoutJobs /\ logoutOutcome'.how = "rejected") =>
          UNCHANGED <<localStorage, introShown, href>>]_vars

\* the grid on display stops with the week of 31 December, after at most
\* 54 weeks that start at most 6 days before 1 January
GridBounded ==
    outcome["heatmap"].how = "rendered" =>
        /\ JanFirst(GridYear) - gridStart \in 0..6
        /\ weekCount <= 54
        /\ DecLast(GridYear) \in (gridStart + 7 * (weekCount - 1))..(gridStart + 7 * weekCount - 1)

\* C30: renderHeatmapCalendar terminates for every year argument once its
\* response has arrived: the page is never stuck in one of its loops, the
\* loop back to a Monday takes at most 6 steps, and the week loop stops after
\* the week that contains 31 December, having emitted at most 54 weeks.
C30_RenderTerminates == ~hung /\ GridBounded

\* what the code keeps of C30: the bounds of a grid that was drawn, which is
\* the grid of a year that is a number
C30_HoldsForNumbers == GridBounded
====
